---- MODULE Spec2Model ----
(***************************************************************************)
(* A model of the NRL match-data scrapers (src/Scraper).                   *)
(*                                                                         *)
(* Strings are sequences of code points, so that the regular expressions,  *)
(* str.strip, str.lower and str.replace act on characters.  Python values  *)
(* (dict, list, str, int, None) are records with a type tag, so that the   *)
(* dynamic errors of the nested loops (AttributeError, TypeError,          *)
(* KeyError) are outcomes of the model.                                    *)
(***************************************************************************)
EXTENDS Integers, Sequences, FiniteSets, TLC

VARIABLES
    pc,      \* the position of the program that runs
    fn,      \* which copy of clean_text is called
    text,    \* clean_text: the argument
    once,    \* clean_text(text)
    twice,   \* clean_text(clean_text(text))
    script,      \* the flattener that runs
    data,        \* its nested input
    fault,       \* what is wrong with the input, if anything
    match_list,  \* args.match_list
    table_data,  \* the rows the loops appended
    error,       \* the exception raised, "" for none
    txt_file,    \* the table written
    list_file,   \* the match list written
    input_years,       \* the basic scrapers: the requested years
    round_range,       \* the requested rounds
    year_i,            \* the index of the year the loop is at
    round_i,           \* the index of the round the loop is at
    year_json_data,    \* the round dicts of the year so far
    match_json_datas,  \* the year dicts so far
    open_drivers,  \* the browsers started and not quit
    page,          \* the match boxes of the page fetched
    failed,        \* the <<year, round>> iterations that raised
    matches,       \* get_detailed_nrl_data: the input list of MatchInput
    at_year,       \* the index of the year the loop is at
    at_round,      \* the index of the round the loop is at
    at_match,      \* the index of the match the loop is at
    round_stats_data,
    round_match_data,
    round_try_data,
    match_stats_data_combined,
    match_detailed_data_combined,
    match_try_data_combined,
    year_stats_data,
    year_match_data,
    year_try_data,
    year_stats_data_combined,
    year_match_data_combined,
    year_try_data_combined,
    DONUT_DATA_2,  \* the module-level dict
    df_stats,      \* nrl_data_statistics.txt
    df_match,      \* nrl_data_detailed.txt
    df_try,        \* nrl_data_try.txt
    processed      \* the matches scraped so far, with the page of each

ctVars == <<fn, text, once, twice>>
flatVars == <<script, data, fault, match_list, table_data, error, txt_file, list_file>>
scrapeVars ==
    <<input_years, round_range, year_i, round_i, year_json_data, match_json_datas,
      open_drivers, page, failed>>
roundVars == <<round_stats_data, round_match_data, round_try_data>>
combinedVars ==
    <<match_stats_data_combined, match_detailed_data_combined, match_try_data_combined>>
yearVars ==
    <<year_stats_data, year_match_data, year_try_data,
      year_stats_data_combined, year_match_data_combined, year_try_data_combined>>
dfVars == <<df_stats, df_match, df_try>>
detailVars ==
    <<matches, at_year, at_round, at_match, roundVars, combinedVars, yearVars,
      DONUT_DATA_2, dfVars, processed>>
vars == <<pc, ctVars, flatVars, scrapeVars, detailVars>>

(***************************************************************************)
(* Bounds.                                                                 *)
(***************************************************************************)
\* the number of pieces an argument of clean_text is made of
MaxChunks == 3
\* the number of years of a nested input
MaxYears == 2
\* the number of matches of a round
MaxMatches == 2
\* the number of years a basic scraper is asked for
ScrapeYears == 2
\* the number of rounds of a season
ScrapeRounds == 2
\* the number of matches of an input list of the detailed scraper
MaxGames == 2
\* the number of rounds a season is drawn from
MaxRounds == 5

(***************************************************************************)
(* Characters.                                                             *)
(***************************************************************************)
LF == 10
SPACE == 32
\* the characters str.strip() removes: those with str.isspace(), below 128
Whitespace == {9, 10, 11, 12, 13, 28, 29, 30, 31, 32}

\* the pattern r'     ' (five spaces) of the third step
FIVE_SPACES == <<32, 32, 32, 32, 32>>
\* the pattern 'Home of the' of the fourth step
HOME_OF_THE == <<72, 111, 109, 101, 32, 111, 102, 32, 116, 104, 101>>

(***************************************************************************)
(* The string operations clean_text is made of.                            *)
(***************************************************************************)
\* a function on 1..n, as the tuple of its values
AsSeq(f) == f \o <<>>

\* re.sub(r'[^\x00-\x7F]+', '', text)
IsAscii(c) == c <= 127
\* the class [^\x00-\xFF] for [^\x00-\x7F]: Latin-1 characters stay
re_sub_non_latin1(t) == SelectSeq(t, LAMBDA c : c <= 255)
\* '?' for '' as the replacement: one '?' for each run
re_sub_non_ascii_question_mark(t) ==
    SelectSeq(AsSeq([i \in 1..Len(t) |->
                        IF IsAscii(t[i]) THEN t[i]
                        ELSE IF i > 1 /\ ~IsAscii(t[i - 1]) THEN 0 ELSE 63]),
              LAMBDA c : c # 0)
re_sub_non_ascii(t) == SelectSeq(t, IsAscii)

\* text.replace('\n', ' ')
replace_newline(t) ==
    AsSeq([i \in 1..Len(t) |-> IF t[i] = LF THEN SPACE ELSE t[i]])

\* str.strip(): the longest run of whitespace is dropped at both ends
RECURSIVE lstrip(_)
lstrip(t) == IF t # <<>> /\ Head(t) \in Whitespace THEN lstrip(Tail(t)) ELSE t

RECURSIVE rstrip(_)
rstrip(t) ==
    IF t # <<>> /\ t[Len(t)] \in Whitespace
    THEN rstrip(SubSeq(t, 1, Len(t) - 1))
    ELSE t

strip(t) == rstrip(lstrip(t))

\* the literal lit occurs in t at index i
MatchAt(t, i, lit) ==
    /\ i + Len(lit) - 1 <= Len(t)
    /\ \A j \in 1..Len(lit) : t[i + j - 1] = lit[j]

\* '.*' from index j: up to, not including, the next newline
RECURSIVE LineEnd(_, _)
LineEnd(t, j) ==
    IF j > Len(t) \/ t[j] = LF THEN j ELSE LineEnd(t, j + 1)

\* re.sub(lit + '.*', '', t), scanning from index i: every match, leftmost
\* first, is removed, and the scan goes on behind it
RECURSIVE re_sub_from(_, _, _)
re_sub_from(lit, t, i) ==
    IF i > Len(t) THEN <<>>
    ELSE IF MatchAt(t, i, lit)
         THEN re_sub_from(lit, t, LineEnd(t, i + Len(lit)))
         ELSE <<t[i]>> \o re_sub_from(lit, t, i + 1)

\* the pattern without its '.*': the literal alone is removed
RECURSIVE re_sub_literal_from(_, _, _)
re_sub_literal_from(lit, t, i) ==
    IF i > Len(t) THEN <<>>
    ELSE IF MatchAt(t, i, lit)
         THEN re_sub_literal_from(lit, t, i + Len(lit))
         ELSE <<t[i]>> \o re_sub_literal_from(lit, t, i + 1)

re_sub_literal(lit, t) == re_sub_literal_from(lit, t, 1)

re_sub_tail(lit, t) == re_sub_from(lit, t, 1)

\* convert_json_to_txt.clean_text
clean_text(t) ==
    LET t1 == re_sub_non_ascii(t)
        t2 == strip(replace_newline(t1))
        t3 == re_sub_tail(FIVE_SPACES, t2)
        t4 == re_sub_tail(HOME_OF_THE, t3)
    IN  t4

\* NRLScraper.clean_text
NRLScraper_clean_text(t) ==
    LET t1 == re_sub_non_ascii(t)
        t2 == strip(replace_newline(t1))
        t3 == re_sub_tail(FIVE_SPACES, t2)
        t4 == re_sub_tail(HOME_OF_THE, t3)
    IN  t4

(***************************************************************************)
(* The string literals of the source, as code points.                      *)
(***************************************************************************)
\* 'NRL'
s_NRL == <<78, 82, 76>>
\* 'Details'
s_Details == <<68, 101, 116, 97, 105, 108, 115>>
\* 'Date'
s_Date == <<68, 97, 116, 101>>
\* 'Home'
s_Home == <<72, 111, 109, 101>>
\* 'Home_Score'
s_Home_Score == <<72, 111, 109, 101, 95, 83, 99, 111, 114, 101>>
\* 'Away'
s_Away == <<65, 119, 97, 121>>
\* 'Away_Score'
s_Away_Score == <<65, 119, 97, 121, 95, 83, 99, 111, 114, 101>>
\* 'Venue'
s_Venue == <<86, 101, 110, 117, 101>>
\* 'details'
s_details == <<100, 101, 116, 97, 105, 108, 115>>
\* 'date'
s_date == <<100, 97, 116, 101>>
\* 'home_team'
s_home_team == <<104, 111, 109, 101, 95, 116, 101, 97, 109>>
\* 'home_score'
s_home_score == <<104, 111, 109, 101, 95, 115, 99, 111, 114, 101>>
\* 'away_team'
s_away_team == <<97, 119, 97, 121, 95, 116, 101, 97, 109>>
\* 'away_score'
s_away_score == <<97, 119, 97, 121, 95, 115, 99, 111, 114, 101>>
\* 'venue'
s_venue == <<118, 101, 110, 117, 101>>
\* 'Year'
s_Year == <<89, 101, 97, 114>>
\* 'Round'
s_Round == <<82, 111, 117, 110, 100>>
\* 'grand-final'
s_grand_final == <<103, 114, 97, 110, 100, 45, 102, 105, 110, 97, 108>>
\* 'finals-week-3'
s_finals_week_3 == <<102, 105, 110, 97, 108, 115, 45, 119, 101, 101, 107, 45, 51>>
\* 'finals-week-2'
s_finals_week_2 == <<102, 105, 110, 97, 108, 115, 45, 119, 101, 101, 107, 45, 50>>
\* 'finals-week-1'
s_finals_week_1 == <<102, 105, 110, 97, 108, 115, 45, 119, 101, 101, 107, 45, 49>>
\* 'home/away'
s_home_away == <<104, 111, 109, 101, 47, 97, 119, 97, 121>>
\* 'home'
s_home == <<104, 111, 109, 101>>
\* 'away'
s_away == <<97, 119, 97, 121>>
\* 'possession'
s_possession == <<112, 111, 115, 115, 101, 115, 115, 105, 111, 110>>
\* 'first_try_scorer'
s_first_try_scorer == <<102, 105, 114, 115, 116, 95, 116, 114, 121, 95, 115, 99, 111, 114, 101, 114>>
\* 'first_try_time'
s_first_try_time == <<102, 105, 114, 115, 116, 95, 116, 114, 121, 95, 116, 105, 109, 101>>
\* 'overall_first_try_scorer'
s_overall_first_try_scorer == <<111, 118, 101, 114, 97, 108, 108, 95, 102, 105, 114, 115, 116, 95, 116, 114, 121, 95, 115, 99, 111, 114, 101, 114>>
\* 'overall_first_try_minute'
s_overall_first_try_minute == <<111, 118, 101, 114, 97, 108, 108, 95, 102, 105, 114, 115, 116, 95, 116, 114, 121, 95, 109, 105, 110, 117, 116, 101>>
\* 'overall_first_try_round'
s_overall_first_try_round == <<111, 118, 101, 114, 97, 108, 108, 95, 102, 105, 114, 115, 116, 95, 116, 114, 121, 95, 114, 111, 117, 110, 100>>
\* 'ref_names'
s_ref_names == <<114, 101, 102, 95, 110, 97, 109, 101, 115>>
\* 'ref_positions'
s_ref_positions == <<114, 101, 102, 95, 112, 111, 115, 105, 116, 105, 111, 110, 115>>
\* 'main_ref'
s_main_ref == <<109, 97, 105, 110, 95, 114, 101, 102>>
\* 'ground_condition'
s_ground_condition == <<103, 114, 111, 117, 110, 100, 95, 99, 111, 110, 100, 105, 116, 105, 111, 110>>
\* 'weather_condition'
s_weather_condition == <<119, 101, 97, 116, 104, 101, 114, 95, 99, 111, 110, 100, 105, 116, 105, 111, 110>>
\* 'try_names'
s_try_names == <<116, 114, 121, 95, 110, 97, 109, 101, 115>>
\* 'try_minutes'
s_try_minutes == <<116, 114, 121, 95, 109, 105, 110, 117, 116, 101, 115>>
\* '.v.'
s__v_ == <<46, 118, 46>>

\* headers of convert_json_to_table and of NRLScraper.save_data
headers ==
    << <<67, 111, 109, 112, 101, 116, 105, 116, 105, 111, 110>>,    \* 'Competition'
       <<89, 101, 97, 114>>,    \* 'Year'
       <<82, 111, 117, 110, 100>>,    \* 'Round'
       <<68, 101, 116, 97, 105, 108, 115>>,    \* 'Details'
       <<68, 97, 116, 101>>,    \* 'Date'
       <<72, 111, 109, 101>>,    \* 'Home'
       <<72, 111, 109, 101, 95, 83, 99, 111, 114, 101>>,    \* 'Home_Score'
       <<65, 119, 97, 121>>,    \* 'Away'
       <<65, 119, 97, 121, 95, 83, 99, 111, 114, 101>>,    \* 'Away_Score'
       <<86, 101, 110, 117, 101>> >>    \* 'Venue'

\* stats_data_headers of get_detailed_nrl_data
stats_data_headers ==
    << <<67, 111, 109, 112, 101, 116, 105, 116, 105, 111, 110>>,    \* 'Competition'
       <<89, 101, 97, 114>>,    \* 'Year'
       <<82, 111, 117, 110, 100>>,    \* 'Round'
       <<71, 97, 109, 101>>,    \* 'Game'
       <<72, 111, 109, 101, 47, 65, 119, 97, 121>>,    \* 'Home/Away'
       <<80, 111, 115, 115, 101, 115, 115, 105, 111, 110>>,    \* 'Possession'
       <<70, 105, 114, 115, 116, 32, 84, 114, 121, 32, 83, 99, 111, 114, 101, 114>>,    \* 'First Try Scorer'
       <<70, 105, 114, 115, 116, 32, 84, 114, 121, 32, 84, 105, 109, 101>>,    \* 'First Try Time'
       <<84, 105, 109, 101, 32, 73, 110, 32, 80, 111, 115, 115, 101, 115, 115, 105, 111, 110>>,    \* 'Time In Possession'
       <<65, 108, 108, 32, 82, 117, 110, 115>>,    \* 'All Runs'
       <<65, 108, 108, 32, 82, 117, 110, 32, 77, 101, 116, 114, 101, 115>>,    \* 'All Run Metres'
       <<80, 111, 115, 116, 32, 67, 111, 110, 116, 97, 99, 116, 32, 77, 101, 116, 114, 101, 115>>,    \* 'Post Contact Metres'
       <<76, 105, 110, 101, 32, 66, 114, 101, 97, 107, 115>>,    \* 'Line Breaks'
       <<84, 97, 99, 107, 108, 101, 32, 66, 114, 101, 97, 107, 115>>,    \* 'Tackle Breaks'
       <<65, 118, 101, 114, 97, 103, 101, 32, 83, 101, 116, 32, 68, 105, 115, 116, 97, 110, 99, 101>>,    \* 'Average Set Distance'
       <<75, 105, 99, 107, 32, 82, 101, 116, 117, 114, 110, 32, 77, 101, 116, 114, 101, 115>>,    \* 'Kick Return Metres'
       <<79, 102, 102, 108, 111, 97, 100, 115>>,    \* 'Offloads'
       <<82, 101, 99, 101, 105, 112, 116, 115>>,    \* 'Receipts'
       <<84, 111, 116, 97, 108, 32, 80, 97, 115, 115, 101, 115>>,    \* 'Total Passes'
       <<68, 117, 109, 109, 121, 32, 80, 97, 115, 115, 101, 115>>,    \* 'Dummy Passes'
       <<75, 105, 99, 107, 115>>,    \* 'Kicks'
       <<75, 105, 99, 107, 105, 110, 103, 32, 77, 101, 116, 114, 101, 115>>,    \* 'Kicking Metres'
       <<70, 111, 114, 99, 101, 100, 32, 68, 114, 111, 112, 32, 79, 117, 116, 115>>,    \* 'Forced Drop Outs'
       <<66, 111, 109, 98, 115>>,    \* 'Bombs'
       <<71, 114, 117, 98, 98, 101, 114, 115>>,    \* 'Grubbers'
       <<84, 97, 99, 107, 108, 101, 115, 32, 77, 97, 100, 101>>,    \* 'Tackles Made'
       <<77, 105, 115, 115, 101, 100, 32, 84, 97, 99, 107, 108, 101, 115>>,    \* 'Missed Tackles'
       <<73, 110, 116, 101, 114, 99, 101, 112, 116, 115>>,    \* 'Intercepts'
       <<73, 110, 101, 102, 102, 101, 99, 116, 105, 118, 101, 32, 84, 97, 99, 107, 108, 101, 115>>,    \* 'Ineffective Tackles'
       <<69, 114, 114, 111, 114, 115>>,    \* 'Errors'
       <<80, 101, 110, 97, 108, 116, 105, 101, 115, 32, 67, 111, 110, 99, 101, 100, 101, 100>>,    \* 'Penalties Conceded'
       <<82, 117, 99, 107, 32, 73, 110, 102, 114, 105, 110, 103, 101, 109, 101, 110, 116, 115>>,    \* 'Ruck Infringements'
       <<73, 110, 115, 105, 100, 101, 32, 49, 48, 32, 77, 101, 116, 114, 101, 115>>,    \* 'Inside 10 Metres'
       <<73, 110, 116, 101, 114, 99, 104, 97, 110, 103, 101, 115, 32, 85, 115, 101, 100>>,    \* 'Interchanges Used'
       <<67, 111, 109, 112, 108, 101, 116, 105, 111, 110, 32, 82, 97, 116, 101>>,    \* 'Completion Rate'
       <<65, 118, 101, 114, 97, 103, 101, 32, 80, 108, 97, 121, 32, 66, 97, 108, 108, 32, 83, 112, 101, 101, 100>>,    \* 'Average Play Ball Speed'
       <<75, 105, 99, 107, 32, 68, 101, 102, 117, 115, 97, 108>>,    \* 'Kick Defusal'
       <<69, 102, 102, 101, 99, 116, 105, 118, 101, 32, 84, 97, 99, 107, 108, 101>>,    \* 'Effective Tackle'
       <<84, 114, 105, 101, 115>>,    \* 'Tries'
       <<67, 111, 110, 118, 101, 114, 115, 105, 111, 110, 115>>,    \* 'Conversions'
       <<80, 101, 110, 97, 108, 116, 121, 32, 71, 111, 97, 108, 115>>,    \* 'Penalty Goals'
       <<83, 105, 110, 32, 66, 105, 110, 115>>,    \* 'Sin Bins'
       <<49, 32, 80, 111, 105, 110, 116, 32, 70, 105, 101, 108, 100, 32, 71, 111, 97, 108, 115>>,    \* '1 Point Field Goals'
       <<50, 32, 80, 111, 105, 110, 116, 32, 70, 105, 101, 108, 100, 32, 71, 111, 97, 108, 115>>,    \* '2 Point Field Goals'
       <<72, 97, 108, 102, 32, 84, 105, 109, 101>> >>    \* 'Half Time'

\* match_data_headers of get_detailed_nrl_data
match_data_headers ==
    << <<67, 111, 109, 112, 101, 116, 105, 116, 105, 111, 110>>,    \* 'Competition'
       <<89, 101, 97, 114>>,    \* 'Year'
       <<82, 111, 117, 110, 100>>,    \* 'Round'
       <<71, 97, 109, 101>>,    \* 'Game'
       <<79, 118, 101, 114, 97, 108, 108, 32, 70, 105, 114, 115, 116, 32, 84, 114, 121, 32, 83, 99, 111, 114, 101, 114>>,    \* 'Overall First Try Scorer'
       <<79, 118, 101, 114, 97, 108, 108, 32, 70, 105, 114, 115, 116, 32, 84, 114, 121, 32, 77, 105, 110, 117, 116, 101>>,    \* 'Overall First Try Minute'
       <<79, 118, 101, 114, 97, 108, 108, 32, 70, 105, 114, 115, 116, 32, 84, 114, 121, 32, 82, 111, 117, 110, 100>>,    \* 'Overall First Try Round'
       <<77, 97, 105, 110, 32, 82, 101, 102>>,    \* 'Main Ref'
       <<71, 114, 111, 117, 110, 100, 32, 67, 111, 110, 100, 105, 116, 105, 111, 110>>,    \* 'Ground Condition'
       <<87, 101, 97, 116, 104, 101, 114, 32, 67, 111, 110, 100, 105, 116, 105, 111, 110>> >>    \* 'Weather Condition'

\* try_data_headers of get_detailed_nrl_data
try_data_headers ==
    << <<67, 111, 109, 112, 101, 116, 105, 116, 105, 111, 110>>,    \* 'Competition'
       <<89, 101, 97, 114>>,    \* 'Year'
       <<82, 111, 117, 110, 100>>,    \* 'Round'
       <<71, 97, 109, 101>>,    \* 'Game'
       <<72, 111, 109, 101, 47, 65, 119, 97, 121>>,    \* 'Home/Away'
       <<84, 114, 121, 32, 78, 97, 109, 101, 115>>,    \* 'Try Names'
       <<84, 114, 121, 32, 77, 105, 110, 117, 116, 101, 115>> >>    \* 'Try Minutes'

\* the keys of BARS_DATA, in order; every value is -1
BARS_DATA_keys ==
    << <<116, 105, 109, 101, 95, 105, 110, 95, 112, 111, 115, 115, 101, 115, 115, 105, 111, 110>>,    \* 'time_in_possession'
       <<97, 108, 108, 95, 114, 117, 110, 115>>,    \* 'all_runs'
       <<97, 108, 108, 95, 114, 117, 110, 95, 109, 101, 116, 114, 101, 115>>,    \* 'all_run_metres'
       <<112, 111, 115, 116, 95, 99, 111, 110, 116, 97, 99, 116, 95, 109, 101, 116, 114, 101, 115>>,    \* 'post_contact_metres'
       <<108, 105, 110, 101, 95, 98, 114, 101, 97, 107, 115>>,    \* 'line_breaks'
       <<116, 97, 99, 107, 108, 101, 95, 98, 114, 101, 97, 107, 115>>,    \* 'tackle_breaks'
       <<97, 118, 101, 114, 97, 103, 101, 95, 115, 101, 116, 95, 100, 105, 115, 116, 97, 110, 99, 101>>,    \* 'average_set_distance'
       <<107, 105, 99, 107, 95, 114, 101, 116, 117, 114, 110, 95, 109, 101, 116, 114, 101, 115>>,    \* 'kick_return_metres'
       <<111, 102, 102, 108, 111, 97, 100, 115>>,    \* 'offloads'
       <<114, 101, 99, 101, 105, 112, 116, 115>>,    \* 'receipts'
       <<116, 111, 116, 97, 108, 95, 112, 97, 115, 115, 101, 115>>,    \* 'total_passes'
       <<100, 117, 109, 109, 121, 95, 112, 97, 115, 115, 101, 115>>,    \* 'dummy_passes'
       <<107, 105, 99, 107, 115>>,    \* 'kicks'
       <<107, 105, 99, 107, 105, 110, 103, 95, 109, 101, 116, 114, 101, 115>>,    \* 'kicking_metres'
       <<102, 111, 114, 99, 101, 100, 95, 100, 114, 111, 112, 95, 111, 117, 116, 115>>,    \* 'forced_drop_outs'
       <<98, 111, 109, 98, 115>>,    \* 'bombs'
       <<103, 114, 117, 98, 98, 101, 114, 115>>,    \* 'grubbers'
       <<116, 97, 99, 107, 108, 101, 115, 95, 109, 97, 100, 101>>,    \* 'tackles_made'
       <<109, 105, 115, 115, 101, 100, 95, 116, 97, 99, 107, 108, 101, 115>>,    \* 'missed_tackles'
       <<105, 110, 116, 101, 114, 99, 101, 112, 116, 115>>,    \* 'intercepts'
       <<105, 110, 101, 102, 102, 101, 99, 116, 105, 118, 101, 95, 116, 97, 99, 107, 108, 101, 115>>,    \* 'ineffective_tackles'
       <<101, 114, 114, 111, 114, 115>>,    \* 'errors'
       <<112, 101, 110, 97, 108, 116, 105, 101, 115, 95, 99, 111, 110, 99, 101, 100, 101, 100>>,    \* 'penalties_conceded'
       <<114, 117, 99, 107, 95, 105, 110, 102, 114, 105, 110, 103, 101, 109, 101, 110, 116, 115>>,    \* 'ruck_infringements'
       <<105, 110, 115, 105, 100, 101, 95, 49, 48, 95, 109, 101, 116, 114, 101, 115>>,    \* 'inside_10_metres'
       <<105, 110, 116, 101, 114, 99, 104, 97, 110, 103, 101, 115, 95, 117, 115, 101, 100>> >>    \* 'interchanges_used'

\* the keys of DONUT_DATA, in order; every value is -1
DONUT_DATA_keys ==
    << <<67, 111, 109, 112, 108, 101, 116, 105, 111, 110, 32, 82, 97, 116, 101>>,    \* 'Completion Rate'
       <<65, 118, 101, 114, 97, 103, 101, 95, 80, 108, 97, 121, 95, 66, 97, 108, 108, 95, 83, 112, 101, 101, 100>>,    \* 'Average_Play_Ball_Speed'
       <<75, 105, 99, 107, 95, 68, 101, 102, 117, 115, 97, 108>>,    \* 'Kick_Defusal'
       <<69, 102, 102, 101, 99, 116, 105, 118, 101, 95, 84, 97, 99, 107, 108, 101>> >>    \* 'Effective_Tackle'

\* the keys of DONUT_DATA_2, in order; every value starts as -1
DONUT_DATA_2_keys ==
    << <<116, 114, 105, 101, 115>>,    \* 'tries'
       <<99, 111, 110, 118, 101, 114, 115, 105, 111, 110, 115>>,    \* 'conversions'
       <<112, 101, 110, 97, 108, 116, 121, 95, 103, 111, 97, 108, 115>>,    \* 'penalty_goals'
       <<115, 105, 110, 95, 98, 105, 110, 115>>,    \* 'sin_bins'
       <<49, 95, 112, 111, 105, 110, 116, 95, 102, 105, 101, 108, 100, 95, 103, 111, 97, 108, 115>>,    \* '1_point_field_goals'
       <<50, 95, 112, 111, 105, 110, 116, 95, 102, 105, 101, 108, 100, 95, 103, 111, 97, 108, 115>>,    \* '2_point_field_goals'
       <<104, 97, 108, 102, 95, 116, 105, 109, 101>> >>    \* 'half_time'

\* DONUT_DATA_2_WORDS
DONUT_DATA_2_WORDS ==
    << <<84, 82, 73, 69, 83>>,    \* 'TRIES'
       <<67, 79, 78, 86, 69, 82, 83, 73, 79, 78, 83>>,    \* 'CONVERSIONS'
       <<80, 69, 78, 65, 76, 84, 89, 32, 71, 79, 65, 76, 83>>,    \* 'PENALTY GOALS'
       <<83, 73, 78, 32, 66, 73, 78, 83>>,    \* 'SIN BINS'
       <<49, 32, 80, 79, 73, 78, 84, 32, 70, 73, 69, 76, 68, 32, 71, 79, 65, 76, 83>>,    \* '1 POINT FIELD GOALS'
       <<50, 32, 80, 79, 73, 78, 84, 32, 70, 73, 69, 76, 68, 32, 71, 79, 65, 76, 83>>,    \* '2 POINT FIELD GOALS'
       <<72, 65, 76, 70, 32, 84, 73, 77, 69>> >>    \* 'HALF TIME'

(***************************************************************************)
(* Python values.  A value is a record with a type tag ty: a str carries   *)
(* its characters in s, an int its number in n, a list and a dict their    *)
(* elements in items (a dict in insertion order, each with its key k; the  *)
(* key of a list element is unused).                                       *)
(***************************************************************************)
PyStr(chars) == [ty |-> "str", s |-> chars, n |-> 0, items |-> <<>>]
PyInt(i) == [ty |-> "int", s |-> <<>>, n |-> i, items |-> <<>>]
PyNone == [ty |-> "none", s |-> <<>>, n |-> 0, items |-> <<>>]
KV(key, val) == [k |-> key, v |-> val]
PyDict(pairs) == [ty |-> "dict", s |-> <<>>, n |-> 0, items |-> pairs]
PyList(elems) ==
    [ty |-> "list", s |-> <<>>, n |-> 0,
     items |-> AsSeq([i \in 1..Len(elems) |-> KV(<<>>, elems[i])])]

\* str(n) and f"{n}" of a natural number: its decimal digits
RECURSIVE str(_)
str(i) ==
    IF i < 10 THEN <<48 + i>> ELSE Append(str(i \div 10), 48 + (i % 10))

\* key in d, for a dict d
HasKey(d, key) == \E i \in 1..Len(d.items) : d.items[i].k = key

\* d[key], for a dict d that has the key
Lookup(d, key) ==
    d.items[CHOOSE i \in 1..Len(d.items) : d.items[i].k = key].v

\* d[key] = val, for a dict d: an old key keeps its place, a new one is last
SetItem(d, key, val) ==
    IF HasKey(d, key)
    THEN [d EXCEPT !.items[CHOOSE i \in 1..Len(d.items) : d.items[i].k = key].v = val]
    ELSE [d EXCEPT !.items = Append(d.items, KV(key, val))]

\* what "for x in v" yields: the elements of a list, the keys of a dict,
\* the characters of a str
IterValues(v) ==
    IF v.ty = "list" THEN v.items
    ELSE IF v.ty = "dict"
         THEN AsSeq([i \in 1..Len(v.items) |-> KV(<<>>, PyStr(v.items[i].k))])
         ELSE AsSeq([i \in 1..Len(v.s) |-> KV(<<>>, PyStr(<<v.s[i]>>))])

Iterable(v) == v.ty \in {"list", "dict", "str"}

(***************************************************************************)
(* The nested loops of the flatteners.  The loops of one flattener are a   *)
(* sequence of steps, "items" for "for k, x in v.items()" and "iter" for   *)
(* "for x in v".  Walking a value gives, in the order of the loops, the    *)
(* nodes the innermost loop body is run on, each with the keys bound on    *)
(* the way; a node that has no .items() (AttributeError) or cannot be      *)
(* iterated (TypeError) ends the walk with the error.                      *)
(***************************************************************************)
Leaf(keys, node) == [kind |-> "leaf", keys |-> keys, node |-> node, err |-> ""]
Raise(e) == [kind |-> "raise", keys |-> <<>>, node |-> PyNone, err |-> e]

Raised(w) == w # <<>> /\ w[Len(w)].kind = "raise"

RECURSIVE Walk(_, _, _)
RECURSIVE WalkEach(_, _, _, _, _)
Walk(v, loops, keys) ==
    IF loops = <<>> THEN <<Leaf(keys, v)>>
    ELSE IF Head(loops) = "items"
         THEN IF v.ty # "dict" THEN <<Raise("AttributeError")>>
              ELSE WalkEach(v.items, 1, Tail(loops), keys, TRUE)
         ELSE IF ~Iterable(v) THEN <<Raise("TypeError")>>
              ELSE WalkEach(IterValues(v), 1, Tail(loops), keys, FALSE)

WalkEach(items, i, loops, keys, bindKey) ==
    IF i > Len(items) THEN <<>>
    ELSE LET w == Walk(items[i].v, loops,
                       IF bindKey THEN Append(keys, items[i].k) ELSE keys)
         IN  IF Raised(w) THEN w
             ELSE w \o WalkEach(items, i + 1, loops, keys, bindKey)

\* the outcome of a flattener: the rows appended so far and the error
\* raised, "" when the loops ran to their end
Outcome(rows, err) == [rows |-> rows, err |-> err]

\* match[key] in a loop body: "" when it gives a value, else the error
GetItemError(node, key) ==
    IF node.ty # "dict" THEN "TypeError"
    ELSE IF ~HasKey(node, key) THEN "KeyError"
    ELSE ""

\* the first error of a sequence of errors, "" when there is none
RECURSIVE FirstError(_)
FirstError(errs) ==
    IF errs = <<>> THEN ""
    ELSE IF Head(errs) # "" THEN Head(errs)
    ELSE FirstError(Tail(errs))

(***************************************************************************)
(* convert_json_to_table: the loops and the body.                          *)
(***************************************************************************)
\* for competition, years in json_data.items(): for year_data in years:
\* for year, rounds in year_data.items(): for round_data in rounds:
\* for round_num, matches in round_data.items(): for match in matches
match_loops == <<"items", "iter", "items", "iter", "items", "iter">>

\* re.sub on something that is not a str raises TypeError
CleanError(node, key) ==
    IF GetItemError(node, key) # "" THEN GetItemError(node, key)
    ELSE IF Lookup(node, key).ty # "str" THEN "TypeError"
    ELSE ""

\* convert_body with headers[4:] for headers[3:]
convert_body_slice(leaf) ==
    LET match == leaf.node
        e1 == CleanError(match, s_Venue)
        cleaned == SetItem(match, s_Venue,
                           PyStr(clean_text(Lookup(match, s_Venue).s)))
        e2 == FirstError([i \in 1..(Len(headers) - 4) |->
                            GetItemError(match, headers[i + 4])])
        row == [i \in 1..3 |-> PyStr(leaf.keys[i])]
               \o [i \in 1..(Len(headers) - 4) |-> Lookup(cleaned, headers[i + 4])]
    IN  IF e1 # "" THEN Outcome(<<>>, e1)
        ELSE IF e2 # "" THEN Outcome(<<>>, e2)
        ELSE Outcome(<<row>>, "")

\* convert_body without match['Venue'] = clean_text(match['Venue'])
convert_body_uncleaned(leaf) ==
    LET match == leaf.node
        e1 == CleanError(match, s_Venue)
        e2 == FirstError([i \in 1..(Len(headers) - 3) |->
                            GetItemError(match, headers[i + 3])])
        row == [i \in 1..3 |-> PyStr(leaf.keys[i])]
               \o [i \in 1..(Len(headers) - 3) |-> Lookup(match, headers[i + 3])]
    IN  IF e1 # "" THEN Outcome(<<>>, e1)
        ELSE IF e2 # "" THEN Outcome(<<>>, e2)
        ELSE Outcome(<<row>>, "")

convert_body(leaf) ==
    LET match == leaf.node
        e1 == CleanError(match, s_Venue)
        \* match['Venue'] = clean_text(match['Venue'])
        cleaned == SetItem(match, s_Venue,
                           PyStr(clean_text(Lookup(match, s_Venue).s)))
        \* [match[header] for header in headers[3:]]
        e2 == FirstError([i \in 1..(Len(headers) - 3) |->
                            GetItemError(match, headers[i + 3])])
        row == [i \in 1..3 |-> PyStr(leaf.keys[i])]
               \o [i \in 1..(Len(headers) - 3) |-> Lookup(cleaned, headers[i + 3])]
    IN  IF e1 # "" THEN Outcome(<<>>, e1)
        ELSE IF e2 # "" THEN Outcome(<<>>, e2)
        ELSE Outcome(<<row>>, "")

(***************************************************************************)
(* NRLScraper.save_data: the loops, the body, and the match list.          *)
(***************************************************************************)
\* the fields of MatchData that match_dict is built from, in the order the
\* dict display reads them
MatchData_fields ==
    <<s_details, s_date, s_home_team, s_home_score, s_away_team, s_away_score,
      s_venue>>

save_body(leaf) ==
    LET match == leaf.node
        e1 == FirstError([i \in 1..Len(MatchData_fields) |->
                            GetItemError(match, MatchData_fields[i])])
        e2 == CleanError(match, s_venue)
        match_dict ==
            PyDict(<<KV(s_Details, Lookup(match, s_details)),
                     KV(s_Date, Lookup(match, s_date)),
                     KV(s_Home, Lookup(match, s_home_team)),
                     KV(s_Home_Score, Lookup(match, s_home_score)),
                     KV(s_Away, Lookup(match, s_away_team)),
                     KV(s_Away_Score, Lookup(match, s_away_score)),
                     KV(s_Venue,
                        PyStr(NRLScraper_clean_text(Lookup(match, s_venue).s)))>>)
        row == [i \in 1..3 |-> PyStr(leaf.keys[i])]
               \o [i \in 1..(Len(headers) - 3) |-> Lookup(match_dict, headers[i + 3])]
    IN  IF e1 # "" THEN Outcome(<<>>, e1)
        ELSE IF e2 # "" THEN Outcome(<<>>, e2)
        ELSE Outcome(<<row>>, "")

\* the index of a column of headers
Col(name) == CHOOSE i \in 1..Len(headers) : headers[i] = name

\* df[['Year', 'Round', 'Home', 'Away']]
match_list_of(rows) ==
    AsSeq([i \in 1..Len(rows) |->
            <<rows[i][Col(s_Year)], rows[i][Col(s_Round)],
              rows[i][Col(s_Home)], rows[i][Col(s_Away)]>>])

\* a < b for two str: by code point, a proper prefix first
RECURSIVE StrLess(_, _)
StrLess(a, b) ==
    IF a = <<>> THEN b # <<>>
    ELSE IF b = <<>> THEN FALSE
    ELSE IF Head(a) # Head(b) THEN Head(a) < Head(b)
    ELSE StrLess(Tail(a), Tail(b))

\* Series.unique(): the values in the order they first appear
RECURSIVE unique(_)
unique(xs) ==
    IF xs = <<>> THEN <<>>
    ELSE LET u == unique(SubSeq(xs, 1, Len(xs) - 1))
             x == xs[Len(xs)]
         IN  IF \E i \in 1..Len(u) : u[i] = x THEN u ELSE Append(u, x)

\* sorted(xs, reverse=True) of distinct str
RECURSIVE sorted_reverse(_)
sorted_reverse(xs) ==
    IF xs = <<>> THEN <<>>
    ELSE LET m == CHOOSE i \in 1..Len(xs) :
                    \A j \in 1..Len(xs) : ~StrLess(xs[i].s, xs[j].s)
         IN  <<xs[m]>> \o sorted_reverse(SubSeq(xs, 1, m - 1) \o SubSeq(xs, m + 1, Len(xs)))

finals_names == <<s_grand_final, s_finals_week_3, s_finals_week_2, s_finals_week_1>>

\* df_match_list.loc[mask] = new_round: every column of the rows of the mask
set_round_every_column(list, year, old_round, new_round) ==
    AsSeq([i \in 1..Len(list) |->
            IF list[i][1] = year /\ list[i][2] = old_round
            THEN [c \in 1..Len(list[i]) |-> PyStr(new_round)]
            ELSE list[i]])

\* df_match_list.loc[mask, 'Round'] = new_round
set_round(list, year, old_round, new_round) ==
    AsSeq([i \in 1..Len(list) |->
            IF list[i][1] = year /\ list[i][2] = old_round
            THEN [list[i] EXCEPT ![2] = PyStr(new_round)]
            ELSE list[i]])

RECURSIVE apply_finals_map(_, _, _, _)
apply_finals_map(list, year, top_4_rounds, i) ==
    IF i > Len(finals_names) THEN list
    ELSE apply_finals_map(set_round(list, year, top_4_rounds[i], finals_names[i]),
                          year, top_4_rounds, i + 1)

\* relabel_year with df_match_list['Round'].unique() for
\* year_data['Round'].unique(): the rounds of every year counted
relabel_year_all_rounds(list, year) ==
    LET rounds == unique(AsSeq([i \in 1..Len(list) |-> list[i][2]]))
        sorted == sorted_reverse(rounds)
        top_4_rounds == SubSeq(sorted, 1, IF Len(sorted) < 4 THEN Len(sorted) ELSE 4)
    IN  IF Len(top_4_rounds) >= 4
        THEN apply_finals_map(list, year, top_4_rounds, 1)
        ELSE list

relabel_year(list, year) ==
    LET year_data == SelectSeq(list, LAMBDA r : r[1] = year)
        rounds == unique(AsSeq([i \in 1..Len(year_data) |-> year_data[i][2]]))
        sorted == sorted_reverse(rounds)
        top_4_rounds == SubSeq(sorted, 1, IF Len(sorted) < 4 THEN Len(sorted) ELSE 4)
    IN  IF Len(top_4_rounds) >= 4
        THEN apply_finals_map(list, year, top_4_rounds, 1)
        ELSE list

RECURSIVE relabel_years(_, _, _)
relabel_years(list, years, i) ==
    IF i > Len(years) THEN list
    ELSE relabel_years(relabel_year(list, years[i]), years, i + 1)

\* the match list of save_data, as written
relabel(list) ==
    relabel_years(list, unique(AsSeq([i \in 1..Len(list) |-> list[i][1]])), 1)

(***************************************************************************)
(* get_detailed_nrl_data: the three table loops.                           *)
(***************************************************************************)
\* header.lower()
lower(t) ==
    AsSeq([i \in 1..Len(t) |-> IF t[i] >= 65 /\ t[i] <= 90 THEN t[i] + 32 ELSE t[i]])
\* .replace(' ', '_')
replace_space(t) == AsSeq([i \in 1..Len(t) |-> IF t[i] = SPACE THEN 95 ELSE t[i]])
\* .replace("'", "")
replace_quote(t) == SelectSeq(t, LAMBDA c : c # 39)

header_key(header) == replace_space(lower(header))

\* d.get(key, default), for a dict d
Get(d, key, default) ==
    LET at == {i \in 1..Len(d.items) : d.items[i].k = key}
    IN  IF at = {} THEN default ELSE d.items[CHOOSE i \in at : TRUE].v

\* header_key of each column of the statistics and of the match table
stats_header_keys ==
    AsSeq([c \in 1..Len(stats_data_headers) |-> header_key(stats_data_headers[c])])
match_header_keys ==
    AsSeq([c \in 1..Len(match_data_headers) |-> header_key(match_data_headers[c])])

\* the loops down to the teams of a game (statistics and try tables) ...
team_loops == <<"items", "iter", "items", "iter", "items", "iter", "items", "items">>
\* ... and down to the games (match table)
game_loops == <<"items", "iter", "items", "iter", "items", "iter", "items">>

stats_body(leaf) ==
    LET team_stats == leaf.node
        row == [i \in 1..4 |-> PyStr(leaf.keys[i])]
               \o <<Get(team_stats, s_home_away, PyStr(<<>>))>>
               \o [i \in 1..(Len(stats_data_headers) - 5) |->
                     Get(team_stats, stats_header_keys[i + 5], PyStr(<<>>))]
    IN  IF team_stats.ty # "dict" THEN Outcome(<<>>, "AttributeError")
        ELSE Outcome(<<row>>, "")

match_body(leaf) ==
    LET game_stats == leaf.node
        row == [i \in 1..4 |-> PyStr(leaf.keys[i])]
               \o [i \in 1..(Len(match_data_headers) - 4) |->
                     Get(game_stats, match_header_keys[i + 4], PyStr(<<>>))]
    IN  IF game_stats.ty # "dict" THEN Outcome(<<>>, "AttributeError")
        ELSE Outcome(<<row>>, "")

\* for try_name, try_minute in zip(try_names, try_minutes): one row each,
\* up to the shorter of the two; try_minute.replace needs a str
RECURSIVE try_rows(_, _, _, _, _)
try_rows(keys, names, minutes, i, rows) ==
    IF i > Len(names) \/ i > Len(minutes) THEN Outcome(rows, "")
    ELSE IF minutes[i].v.ty # "str" THEN Outcome(rows, "AttributeError")
    ELSE try_rows(keys, names, minutes, i + 1,
                  Append(rows, [j \in 1..5 |-> PyStr(keys[j])]
                               \o <<names[i].v, PyStr(replace_quote(minutes[i].v.s))>>))

try_body(leaf) ==
    LET team_stats == leaf.node
        try_names == Get(team_stats, s_try_names, PyList(<<>>))
        try_minutes == Get(team_stats, s_try_minutes, PyList(<<>>))
    IN  IF team_stats.ty # "dict" THEN Outcome(<<>>, "AttributeError")
        ELSE IF ~Iterable(try_names) \/ ~Iterable(try_minutes)
             THEN Outcome(<<>>, "TypeError")
        ELSE try_rows(leaf.keys, IterValues(try_names), IterValues(try_minutes), 1, <<>>)

\* the body of the innermost loop of a flattener
Body(sc, leaf) ==
    CASE sc = "convert_json_to_table" -> convert_body(leaf)
      [] sc = "save_data" -> save_body(leaf)
      [] sc = "stats_loop" -> stats_body(leaf)
      [] sc = "match_loop" -> match_body(leaf)
      [] sc = "try_loop" -> try_body(leaf)

\* RunBody with the append behind the loops instead of in the innermost
\* one: only the rows of the last run of the body are kept
RECURSIVE RunBody_append_dedented(_, _, _, _)
RunBody_append_dedented(w, i, sc, rows) ==
    IF i > Len(w) THEN Outcome(rows, "")
    ELSE IF w[i].kind = "raise" THEN Outcome(rows, w[i].err)
    ELSE LET b == Body(sc, w[i])
         IN  IF b.err # "" THEN Outcome(b.rows, b.err)
             ELSE RunBody_append_dedented(w, i + 1, sc, b.rows)

\* the loops with table_data.insert(0, row) for table_data.append(row)
RECURSIVE RunBody_insert_first(_, _, _, _)
RunBody_insert_first(w, i, sc, rows) ==
    IF i > Len(w) THEN Outcome(rows, "")
    ELSE IF w[i].kind = "raise" THEN Outcome(rows, w[i].err)
    ELSE LET b == Body(sc, w[i])
         IN  IF b.err # "" THEN Outcome(b.rows \o rows, b.err)
             ELSE RunBody_insert_first(w, i + 1, sc, b.rows \o rows)

\* the loop body, run on the leaves of a walk in order; Body(sc, leaf)
\* is the outcome of one run of the body: the rows it appends, and its error
RECURSIVE RunBody(_, _, _, _)
RunBody(w, i, sc, rows) ==
    IF i > Len(w) THEN Outcome(rows, "")
    ELSE IF w[i].kind = "raise" THEN Outcome(rows, w[i].err)
    ELSE LET b == Body(sc, w[i])
         IN  IF b.err # "" THEN Outcome(rows \o b.rows, b.err)
             ELSE RunBody(w, i + 1, sc, rows \o b.rows)

convert_json_to_table(json_data) ==
    RunBody(Walk(json_data, match_loops, <<>>), 1, "convert_json_to_table", <<>>)

save_data_table(tree) ==
    RunBody(Walk(tree, match_loops, <<>>), 1, "save_data", <<>>)

stats_loop(master_stats_data) ==
    RunBody(Walk(master_stats_data, team_loops, <<>>), 1, "stats_loop", <<>>)

match_loop(master_match_data) ==
    RunBody(Walk(master_match_data, game_loops, <<>>), 1, "match_loop", <<>>)

try_loop(master_try_data) ==
    RunBody(Walk(master_try_data, team_loops, <<>>), 1, "try_loop", <<>>)

(***************************************************************************)
(* The records the scrapers build.                                         *)
(***************************************************************************)
\* a team name: "A", "B", ...
team_name(i) == <<64 + i>>

\* the venue texts of the site, among them the two the normalizer is for
\* 'Stadium X     Extra'
venue_gap == <<83, 116, 97, 100, 105, 117, 109, 32, 88, 32, 32, 32, 32, 32, 69, 120, 116, 114, 97>>
\* 'Suncorp Stadium\nHome of the Broncos'
venue_home_of == <<83, 117, 110, 99, 111, 114, 112, 32, 83, 116, 97, 100, 105, 117, 109, 10, 72, 111, 109, 101, 32, 111, 102, 32, 116, 104, 101, 32, 66, 114, 111, 110, 99, 111, 115>>
\* 'Accor Stadium'
venue_plain == <<65, 99, 99, 111, 114, 32, 83, 116, 97, 100, 105, 117, 109>>

venue_of(i) ==
    IF i % 3 = 1 THEN venue_gap ELSE IF i % 3 = 2 THEN venue_plain ELSE venue_home_of

\* the match dict of get_nrl_data, for match i of round r of year y
json_match(y, r, i) ==
    PyDict(<<KV(s_Details, PyStr(s_Round \o <<SPACE>> \o str(r))),
             KV(s_Date, PyStr(str(y))),
             KV(s_Home, PyStr(team_name(2 * i - 1))),
             KV(s_Home_Score, PyStr(str(10 + i))),
             KV(s_Away, PyStr(team_name(2 * i))),
             KV(s_Away_Score, PyStr(str(12))),
             KV(s_Venue, PyStr(venue_of(i)))>>)

\* MatchData(...).__dict__ of NRLScraper.get_round_data
MatchData(details, date, home_team, home_score, away_team, away_score, venue) ==
    PyDict(<<KV(s_details, details), KV(s_date, date),
             KV(s_home_team, home_team), KV(s_home_score, home_score),
             KV(s_away_team, away_team), KV(s_away_score, away_score),
             KV(s_venue, venue)>>)

scraper_match(y, r, i) ==
    MatchData(PyStr(s_Round \o <<SPACE>> \o str(r)), PyStr(str(y)),
              PyStr(team_name(2 * i - 1)), PyStr(str(10 + i)),
              PyStr(team_name(2 * i)), PyStr(str(12)), PyStr(venue_of(i)))

\* a dict of placeholders: every key of keys with the value val
Placeholders(keys, val) ==
    PyDict(AsSeq([i \in 1..Len(keys) |-> KV(keys[i], PyInt(val))]))

BARS_DATA == Placeholders(BARS_DATA_keys, -1)
DONUT_DATA == Placeholders(DONUT_DATA_keys, -1)
\* DONUT_DATA_2 as the module defines it
DONUT_DATA_2_initial == Placeholders(DONUT_DATA_2_keys, -1)

\* {**a, **b}: the items of a, with the value b gives where b has the key,
\* and behind them the items of b whose key a has not
Merge(a, b) ==
    PyDict(AsSeq([i \in 1..Len(a.items) |->
                    IF HasKey(b, a.items[i].k)
                    THEN KV(a.items[i].k, Lookup(b, a.items[i].k))
                    ELSE a.items[i]])
           \o SelectSeq(b.items, LAMBDA it : ~HasKey(a, it.k)))

\* one team's dict of stats_data_temp
team_stats_of(home_away, possession, scorer, minute, bars, donut, game_stats) ==
    LET d0 == PyDict(<<KV(s_home_away, PyStr(home_away)),
                       KV(s_possession, possession),
                       KV(s_first_try_scorer, scorer),
                       KV(s_first_try_time, minute)>>)
    IN  Merge(Merge(Merge(d0, bars), donut), game_stats)

\* one team's dict of try_data_temp
team_tries_of(home_away, try_names, try_minutes) ==
    PyDict(<<KV(s_home_away, PyStr(home_away)),
             KV(s_try_names, PyList(try_names)),
             KV(s_try_minutes, PyList(try_minutes))>>)

\* {home+'.v.'+away: {home: h, away: a}}
game_of_teams(home, away, h, a) ==
    PyDict(<<KV(home \o s__v_ \o away,
                SetItem(SetItem(PyDict(<<>>), home, h), away, a))>>)

\* match_data_temp
game_of_match(home, away, scorer, minute, team, refs, positions, main_ref, ground, weather) ==
    PyDict(<<KV(home \o s__v_ \o away,
                PyDict(<<KV(s_overall_first_try_scorer, scorer),
                         KV(s_overall_first_try_minute, minute),
                         KV(s_overall_first_try_round, team),
                         KV(s_ref_names, PyList(refs)),
                         KV(s_ref_positions, PyList(positions)),
                         KV(s_main_ref, main_ref),
                         KV(s_ground_condition, PyStr(ground)),
                         KV(s_weather_condition, PyStr(weather))>>))>>)

(***************************************************************************)
(* The nested inputs of the flatteners.  A shape gives, for each year, the *)
(* rounds and the number of matches of each.                                 *)
(***************************************************************************)
\* a try: the scorer's name and the minute, as the page shows them
try_name_of(j) == PyStr(<<80, 48 + j>>)
try_minute_of(j) == PyStr(str(10 * j) \o <<39>>)

stats_game(y, r, i) ==
    game_of_teams(team_name(2 * i - 1), team_name(2 * i),
        team_stats_of(s_home, PyStr(<<53, 48, 37>>), try_name_of(1), try_minute_of(1),
                      BARS_DATA, DONUT_DATA, DONUT_DATA_2_initial),
        team_stats_of(s_away, PyStr(<<53, 48, 37>>), PyNone, PyNone,
                      BARS_DATA, DONUT_DATA, DONUT_DATA_2_initial))

match_game(y, r, i) ==
    game_of_match(team_name(2 * i - 1), team_name(2 * i),
                  try_name_of(1), try_minute_of(1), PyStr(team_name(2 * i - 1)),
                  <<PyStr(<<82>>)>>, <<PyStr(<<82>>)>>, PyStr(<<82>>), <<71>>, <<87>>)

try_game(y, r, i) ==
    game_of_teams(team_name(2 * i - 1), team_name(2 * i),
        team_tries_of(s_home, [j \in 1..i |-> try_name_of(j)],
                              [j \in 1..i |-> try_minute_of(j)]),
        team_tries_of(s_away, <<>>, <<>>))

\* the sequences over S of length n, and of length 1 to n
RECURSIVE SeqsOf(_, _)
SeqsOf(S, n) ==
    IF n = 0 THEN { <<>> } ELSE { Append(q, x) : q \in SeqsOf(S, n - 1), x \in S }

SeqsUpTo(S, n) == UNION { SeqsOf(S, k) : k \in 1..n }

Round(r, m) == [r |-> r, m |-> m]

\* the rounds of a year: none, round 8, or rounds 8 and 9, the first with
\* any number of matches up to MaxMatches
SmallYears ==
    { <<>> }
    \cup { <<Round(8, a)>> : a \in 0..MaxMatches }
    \cup { <<Round(8, a), Round(9, 1)>> : a \in 0..MaxMatches }

\* the elements of a set of numbers, ascending
RECURSIVE Ascending(_)
Ascending(S) ==
    IF S = {} THEN <<>>
    ELSE LET m == CHOOSE x \in S : \A y \in S : x <= y
         IN  <<m>> \o Ascending(S \ {m})

\* the rounds of a season: three or more of the rounds 8 to 7 + MaxRounds,
\* in the order of the range, one match each
SeasonYears ==
    { [i \in 1..Cardinality(S) |-> Round(Ascending(S)[i], 1)] :
        S \in { T \in SUBSET (8..(7 + MaxRounds)) : Cardinality(T) >= 3 } }

\* a few games per round, for the tables of the detailed scraper
GameYears ==
    { <<>> }
    \cup { <<Round(8, a)>> : a \in 1..MaxMatches }
    \cup { <<Round(8, a), Round(9, 1)>> : a \in 1..MaxMatches }

\* a year with round 9 before round 8, as a file that was not written in
\* the order of the rounds has them, and a year of one round
UnsortedShape == << <<Round(9, 1), Round(8, 1)>>, <<Round(8, 1)>> >>

SmallShapes == SeqsUpTo(SmallYears, MaxYears)
\* the first k rounds of a season, one match each
FirstRounds == { [i \in 1..k |-> Round(7 + i, 1)] : k \in 1..MaxRounds }

\* one season, or a season and the first rounds of another, in either order
SeasonShapes ==
    { <<a>> : a \in SeasonYears }
    \cup { <<a, b>> : a \in SeasonYears, b \in FirstRounds }
    \cup { <<b, a>> : a \in SeasonYears, b \in FirstRounds }
GameShapes == SeqsUpTo(GameYears, MaxYears)

\* the tree the faults are put into
FaultShape == << <<Round(8, 2), Round(9, 1)>>, <<Round(8, 1)>> >>

Scripts ==
    {"convert_json_to_table", "save_data", "stats_loop", "match_loop", "try_loop"}

\* the element of a round's list that a flattener is given
Element(sc, y, r, i) ==
    CASE sc = "convert_json_to_table" -> json_match(y, r, i)
      [] sc = "save_data" -> scraper_match(y, r, i)
      [] sc = "stats_loop" -> stats_game(y, r, i)
      [] sc = "match_loop" -> match_game(y, r, i)
      [] sc = "try_loop" -> try_game(y, r, i)

TreeFor(sc, shape) ==
    PyDict(<<KV(s_NRL,
      PyList([yi \in 1..Len(shape) |->
        PyDict(<<KV(str(2022 + yi),
          PyList([ri \in 1..Len(shape[yi]) |->
            PyDict(<<KV(str(shape[yi][ri].r),
              PyList([mi \in 1..shape[yi][ri].m |->
                        Element(sc, 2022 + yi, shape[yi][ri].r, mi)]))>>)]))>>)]))>>)

\* the file of one match: {"NRL": [{"2024": [{"1": [{"Details": "Round 1",
\* "Date": "Thu", "Home": "A", "Home_Score": "10", "Away": "B",
\* "Away_Score": "12", "Venue": "Stadium X     Extra"}]}]}]}
scenario_json ==
    PyDict(<<KV(s_NRL, PyList(<<
      PyDict(<<KV(<<50, 48, 50, 52>>, PyList(<<
        PyDict(<<KV(<<49>>, PyList(<<
          PyDict(<<KV(s_Details, PyStr(<<82, 111, 117, 110, 100, 32, 49>>)),
                   KV(s_Date, PyStr(<<84, 104, 117>>)),
                   KV(s_Home, PyStr(<<65>>)),
                   KV(s_Home_Score, PyStr(<<49, 48>>)),
                   KV(s_Away, PyStr(<<66>>)),
                   KV(s_Away_Score, PyStr(<<49, 50>>)),
                   KV(s_Venue, PyStr(venue_gap))>>)>>))>>)>>))>>)>>))>>)

ShapesFor(sc) ==
    { UnsortedShape }
    \cup CASE sc = "convert_json_to_table" -> SmallShapes
            [] sc = "save_data" -> SmallShapes \cup SeasonShapes
            [] sc \in {"stats_loop", "match_loop", "try_loop"} -> GameShapes

LoopsOf(sc) ==
    CASE sc \in {"convert_json_to_table", "save_data"} -> match_loops
      [] sc = "match_loop" -> game_loops
      [] sc \in {"stats_loop", "try_loop"} -> team_loops

\* the node of v at a path of item indices
RECURSIVE NodeAt(_, _)
NodeAt(v, path) ==
    IF path = <<>> THEN v ELSE NodeAt(v.items[Head(path)].v, Tail(path))

\* v with the node at path replaced by nv
RECURSIVE ReplaceAt(_, _, _)
ReplaceAt(v, path, nv) ==
    IF path = <<>> THEN nv
    ELSE [v EXCEPT !.items[Head(path)].v = ReplaceAt(@, Tail(path), nv)]

\* the paths of v to the nodes at depth d
RECURSIVE PathsAt(_, _)
PathsAt(v, d) ==
    IF d = 0 THEN { <<>> }
    ELSE UNION { { <<i>> \o p : p \in PathsAt(v.items[i].v, d - 1) } :
                    i \in 1..Len(v.items) }

\* d without the key
WithoutKey(d, key) ==
    [d EXCEPT !.items = SelectSeq(d.items, LAMBDA it : it.k # key)]

\* a scalar, an empty string, a string, None
BadValues == { PyInt(5), PyStr(<<>>), PyStr(<<97, 98>>), PyNone }

NoFault == [kind |-> "none", path |-> <<>>, key |-> <<>>, bad |-> PyNone]

\* a leaf record without one of its fields
MissingFaults(tree, loops) ==
    UNION { { [kind |-> "missing", path |-> p,
               key |-> NodeAt(tree, p).items[i].k, bad |-> PyNone] :
                i \in 1..Len(NodeAt(tree, p).items) } :
            p \in PathsAt(tree, Len(loops)) }

\* a node of the wrong type, at any depth down to the leaf records
MalformedFaults(tree, loops) ==
    UNION { { [kind |-> "malformed", path |-> p, key |-> <<>>, bad |-> b] :
                p \in PathsAt(tree, d), b \in BadValues } :
            d \in 0..Len(loops) }

\* a try list of the wrong type
FieldFaults(tree, loops) ==
    { [kind |-> "field", path |-> p, key |-> key, bad |-> b] :
        p \in PathsAt(tree, Len(loops)), key \in {s_try_names, s_try_minutes},
        b \in BadValues }

FaultsFor(sc) ==
    LET tree == TreeFor(sc, FaultShape)
    IN  MissingFaults(tree, LoopsOf(sc))
        \cup MalformedFaults(tree, LoopsOf(sc))
        \cup (IF sc = "try_loop" THEN FieldFaults(tree, LoopsOf(sc)) ELSE {})

WithFault(tree, f) ==
    CASE f.kind = "none" -> tree
      [] f.kind = "missing" ->
            ReplaceAt(tree, f.path, WithoutKey(NodeAt(tree, f.path), f.key))
      [] f.kind = "malformed" -> ReplaceAt(tree, f.path, f.bad)
      [] f.kind = "field" ->
            ReplaceAt(tree, f.path, SetItem(NodeAt(tree, f.path), f.key, f.bad))

\* the trees a flattener is given
TreesFor(sc) ==
    { TreeFor(sc, shape) : shape \in ShapesFor(sc) }
    \cup (IF sc = "convert_json_to_table" THEN { scenario_json } ELSE {})

\* a file: not written, or written with these rows
NoFile == [written |-> FALSE, rows |-> <<>>]
File(rows) == [written |-> TRUE, rows |-> rows]

(***************************************************************************)
(* The flatteners, each run once on a nested input.                        *)
(***************************************************************************)
CleanIdle == fn = "" /\ text = <<>> /\ once = <<>> /\ twice = <<>>

FlatIdle ==
    /\ script = "" /\ data = PyNone /\ fault = NoFault /\ match_list = FALSE
    /\ table_data = <<>> /\ error = "" /\ txt_file = NoFile /\ list_file = NoFile

ScrapeIdle ==
    /\ input_years = <<>> /\ round_range = <<>> /\ year_i = 0 /\ round_i = 0
    /\ year_json_data = <<>> /\ match_json_datas = <<>> /\ open_drivers = 0
    /\ page = <<>> /\ failed = {}

\* a local name that is not bound yet
Unbound == [ty |-> "unbound", s |-> <<>>, n |-> 0, items |-> <<>>]

DetailIdle ==
    /\ matches = <<>> /\ at_year = 0 /\ at_round = 0 /\ at_match = 0
    /\ round_stats_data = <<>> /\ round_match_data = <<>> /\ round_try_data = <<>>
    /\ match_stats_data_combined = Unbound
    /\ match_detailed_data_combined = Unbound
    /\ match_try_data_combined = Unbound
    /\ year_stats_data = <<>> /\ year_match_data = <<>> /\ year_try_data = <<>>
    /\ year_stats_data_combined = Unbound
    /\ year_match_data_combined = Unbound
    /\ year_try_data_combined = Unbound
    /\ DONUT_DATA_2 = DONUT_DATA_2_initial
    /\ df_stats = NoFile /\ df_match = NoFile /\ df_try = NoFile
    /\ processed = <<>>

InitFlat ==
    /\ pc = "start"
    /\ script \in Scripts
    /\ \/ /\ fault = NoFault
          /\ data \in TreesFor(script)
       \/ /\ fault \in FaultsFor(script)
          /\ data = WithFault(TreeFor(script, FaultShape), fault)
    /\ match_list \in (IF script \in {"convert_json_to_table", "save_data"}
                       THEN BOOLEAN ELSE {FALSE})
    /\ table_data = <<>>
    /\ error = ""
    /\ txt_file = NoFile
    /\ list_file = NoFile
    /\ CleanIdle
    /\ ScrapeIdle
    /\ DetailIdle

\* convert_json_to_table(input_file)
ConvertJsonToTable ==
    /\ pc = "start"
    /\ script = "convert_json_to_table"
    /\ LET o == convert_json_to_table(data)
       IN  /\ table_data' = o.rows
           /\ error' = o.err
           /\ pc' = IF o.err = "" THEN "done" ELSE "raised"
           /\ txt_file' = IF o.err = "" THEN File(o.rows) ELSE txt_file
           /\ list_file' = IF o.err = "" /\ match_list
                           THEN File(match_list_of(o.rows)) ELSE list_file
    /\ UNCHANGED <<script, data, fault, match_list, ctVars, scrapeVars, detailVars>>

\* NRLScraper.save_data(data, output_dir, years, args)
SaveData ==
    /\ pc = "start"
    /\ script = "save_data"
    /\ LET o == save_data_table(data)
       IN  /\ table_data' = o.rows
           /\ error' = o.err
           /\ pc' = IF o.err = "" THEN "done" ELSE "raised"
           /\ txt_file' = IF o.err = "" THEN File(o.rows) ELSE txt_file
           /\ list_file' = IF o.err = "" /\ match_list
                           THEN File(relabel(match_list_of(o.rows))) ELSE list_file
    /\ UNCHANGED <<script, data, fault, match_list, ctVars, scrapeVars, detailVars>>

\* the statistics loop of get_detailed_nrl_data
StatsLoop ==
    /\ pc = "start"
    /\ script = "stats_loop"
    /\ LET o == stats_loop(data)
       IN  /\ table_data' = o.rows
           /\ error' = o.err
           /\ pc' = IF o.err = "" THEN "done" ELSE "raised"
    /\ UNCHANGED <<script, data, fault, match_list, txt_file, list_file, ctVars, scrapeVars, detailVars>>

\* the match loop of get_detailed_nrl_data
MatchLoop ==
    /\ pc = "start"
    /\ script = "match_loop"
    /\ LET o == match_loop(data)
       IN  /\ table_data' = o.rows
           /\ error' = o.err
           /\ pc' = IF o.err = "" THEN "done" ELSE "raised"
    /\ UNCHANGED <<script, data, fault, match_list, txt_file, list_file, ctVars, scrapeVars, detailVars>>

\* the try loop of get_detailed_nrl_data
TryLoop ==
    /\ pc = "start"
    /\ script = "try_loop"
    /\ LET o == try_loop(data)
       IN  /\ table_data' = o.rows
           /\ error' = o.err
           /\ pc' = IF o.err = "" THEN "done" ELSE "raised"
    /\ UNCHANGED <<script, data, fault, match_list, txt_file, list_file, ctVars, scrapeVars, detailVars>>

NextFlat == ConvertJsonToTable \/ SaveData \/ StatsLoop \/ MatchLoop \/ TryLoop

SpecFlat == InitFlat /\ [][NextFlat]_vars

(***************************************************************************)
(* What the claims about the flatteners speak of.                          *)
(***************************************************************************)
\* the headers of the table a flattener fills
HeadersOf(sc) ==
    CASE sc \in {"convert_json_to_table", "save_data"} -> headers
      [] sc = "stats_loop" -> stats_data_headers
      [] sc = "match_loop" -> match_data_headers
      [] sc = "try_loop" -> try_data_headers

\* the number of ancestor keys a row starts with
Ancestors(sc) == IF sc \in {"convert_json_to_table", "save_data"} THEN 3 ELSE 4

\* the field of the leaf record that column c of the table is read from
FieldOfColumn(sc, c) ==
    CASE sc = "convert_json_to_table" -> headers[c]
      [] sc = "save_data" -> MatchData_fields[c - 3]
      [] sc = "stats_loop" ->
            IF c = 5 THEN s_home_away ELSE header_key(stats_data_headers[c])
      [] sc = "match_loop" -> header_key(match_data_headers[c])

\* the leaf records of the input, as paths, and their number
LeafPaths == PathsAt(data, Len(LoopsOf(script)))

\* path p is at or before path q in the order of the traversal
RECURSIVE PathLeq(_, _)
PathLeq(p, q) ==
    IF p = <<>> THEN TRUE
    ELSE IF Head(p) # Head(q) THEN Head(p) < Head(q)
    ELSE PathLeq(Tail(p), Tail(q))

\* the place of the leaf at path p among the leaves
LeafIndex(p) == Cardinality({ q \in LeafPaths : PathLeq(q, p) })

\* the keys bound on the way to the leaf at path p: those of the dicts
AncestorKeys(p) ==
    LET ds == SelectSeq(AsSeq([i \in 1..Len(p) |-> i]),
                        LAMBDA i : LoopsOf(script)[i] = "items")
    IN  AsSeq([j \in 1..Len(ds) |->
                NodeAt(data, SubSeq(p, 1, ds[j] - 1)).items[p[ds[j]]].k])

\* the tries of the team at path p, and of the teams at a set of paths
TriesOf(p) == Len(Lookup(NodeAt(data, p), s_try_names).items)

RECURSIVE TotalTries(_)
TotalTries(S) ==
    IF S = {} THEN 0
    ELSE LET p == CHOOSE q \in S : TRUE IN TriesOf(p) + TotalTries(S \ {p})

\* the rows a well-formed input has to give
ExpectedRows ==
    IF script = "try_loop" THEN TotalTries(LeafPaths) ELSE Cardinality(LeafPaths)

\* C1: a leaf record without one of its fields gives a row with an empty
\* string in the column of that field; nothing is raised and the other
\* records still give their rows
C1_MissingFieldIsEmpty ==
    (pc # "start" /\ fault.kind = "missing") =>
        /\ error = ""
        /\ script # "try_loop" =>
            /\ Len(table_data) = Cardinality(LeafPaths)
            /\ \A c \in (Ancestors(script) + 1)..Len(HeadersOf(script)) :
                 FieldOfColumn(script, c) = fault.key =>
                    table_data[LeafIndex(fault.path)][c] = PyStr(<<>>)

\* C8: a node of the wrong type, at any depth, makes the loops raise
C8_MalformedRaises ==
    (pc # "start" /\ fault.kind \in {"malformed", "field"}) => pc = "raised"

\* C9: a well-formed input gives one row for each leaf record, and in the
\* try table one row for each try of each team
C9_Completeness ==
    (pc # "start" /\ fault.kind = "none") =>
        /\ pc = "done"
        /\ Len(table_data) = ExpectedRows

C9_Witness ==
    /\ pc = "done" /\ fault.kind = "none" /\ script = "try_loop"
    /\ Len(table_data) >= 3
    /\ Cardinality(LeafPaths) > Len(table_data)

RECURSIVE int(_)
int(digits) ==
    IF digits = <<>> THEN 0
    ELSE 10 * int(SubSeq(digits, 1, Len(digits) - 1)) + (digits[Len(digits)] - 48)

\* the round numbers of a year in the table written
RoundsOfYear(y) ==
    { int(txt_file.rows[j][3].s) :
        j \in { k \in 1..Len(txt_file.rows) : txt_file.rows[k][2] = y } }

\* how many rounds of the year are higher than round r
Rank(y, r) == Cardinality({ x \in RoundsOfYear(y) : x > r })

\* C2: in a year with four or more rounds the four highest round numbers
\* become grand-final, finals-week-3, finals-week-2, finals-week-1, highest
\* first, and every other round keeps its number
C2_FinalsRelabeling ==
    (pc = "done" /\ script = "save_data" /\ match_list) =>
        \A i \in 1..Len(list_file.rows) :
            LET y == txt_file.rows[i][2]
                r == txt_file.rows[i][3]
                rank == Rank(y, int(r.s))
            IN  list_file.rows[i][2] =
                    IF Cardinality(RoundsOfYear(y)) >= 4 /\ rank < 4
                    THEN PyStr(finals_names[rank + 1])
                    ELSE r

Before(p, q) == p # q /\ PathLeq(p, q)

\* the rows the leaf at path p gives: one, or in the try table one a try
RowsOf(p) == IF script = "try_loop" THEN TriesOf(p) ELSE 1

\* the rows the leaves before the leaf at path p give
RowsBefore(p) ==
    LET S == { q \in LeafPaths : Before(q, p) }
    IN  IF script = "try_loop" THEN TotalTries(S) ELSE Cardinality(S)

\* row is the k-th row of the leaf at path p
RowOfLeaf(row, p, k) ==
    LET leaf == NodeAt(data, p)
    IN  /\ \A j \in 1..Ancestors(script) : row[j] = PyStr(AncestorKeys(p)[j])
        /\ script # "try_loop" =>
              \A c \in (Ancestors(script) + 1)..Len(HeadersOf(script)) :
                  LET key == FieldOfColumn(script, c)
                  IN  (HasKey(leaf, key) /\ key \notin {s_Venue, s_venue}) =>
                          row[c] = Lookup(leaf, key)
        /\ script = "try_loop" =>
              /\ row[5] = PyStr(AncestorKeys(p)[5])
              /\ row[6] = IterValues(Lookup(leaf, s_try_names))[k].v

\* C11: the rows are in the order of the traversal of the input: the rows
\* of a leaf record are behind the rows of all the leaf records before it
\* in the nested input, in the order the input has them, sorted or not
C11_Order ==
    (pc = "done" /\ fault.kind = "none") =>
        \A p \in LeafPaths :
            \A k \in 1..RowsOf(p) :
                /\ RowsBefore(p) + k <= Len(table_data)
                /\ RowOfLeaf(table_data[RowsBefore(p) + k], p, k)

\* a table of a year that has round 9 before round 8
C11_Witness ==
    /\ pc = "done" /\ fault.kind = "none" /\ Len(table_data) >= 3
    /\ \E p, q \in LeafPaths :
          /\ Before(p, q)
          /\ AncestorKeys(p)[2] = AncestorKeys(q)[2]
          /\ StrLess(AncestorKeys(q)[3], AncestorKeys(p)[3])
          /\ table_data[RowsBefore(q) + 1][3] = PyStr(AncestorKeys(q)[3])
          /\ RowsBefore(p) < RowsBefore(q)

\* 'Stadium X'
s_Stadium_X == <<83, 116, 97, 100, 105, 117, 109, 32, 88>>

\* NRL, 2024, 1, Round 1, Thu, A, 10, B, 12, Stadium X
scenario_row ==
    <<PyStr(s_NRL), PyStr(<<50, 48, 50, 52>>), PyStr(<<49>>),
      PyStr(<<82, 111, 117, 110, 100, 32, 49>>), PyStr(<<84, 104, 117>>),
      PyStr(<<65>>), PyStr(<<49, 48>>), PyStr(<<66>>), PyStr(<<49, 50>>),
      PyStr(s_Stadium_X)>>

\* C12: convert_json_to_table gives, for each match of a well-formed file,
\* the row of its competition, year and round, its Details, Date, Home,
\* Home_Score, Away and Away_Score as the file has them, and its Venue
\* normalized; the file of the one match at 'Stadium X     Extra' gives the
\* row NRL, 2024, 1, Round 1, Thu, A, 10, B, 12, Stadium X
C12_RowComposition ==
    (pc = "done" /\ script = "convert_json_to_table" /\ fault.kind = "none") =>
        /\ Len(table_data) = Cardinality(LeafPaths)
        /\ \A p \in LeafPaths :
              LET match == NodeAt(data, p)
                  row == table_data[LeafIndex(p)]
              IN  /\ row = <<PyStr(AncestorKeys(p)[1]), PyStr(AncestorKeys(p)[2]),
                              PyStr(AncestorKeys(p)[3]),
                              Lookup(match, s_Details), Lookup(match, s_Date),
                              Lookup(match, s_Home), Lookup(match, s_Home_Score),
                              Lookup(match, s_Away), Lookup(match, s_Away_Score),
                              PyStr(clean_text(Lookup(match, s_Venue).s))>>
                  /\ Lookup(match, s_Venue).s = venue_gap =>
                          row[10] = PyStr(s_Stadium_X)
        /\ data = scenario_json => table_data = <<scenario_row>>

C12_Witness ==
    /\ pc = "done" /\ script = "convert_json_to_table"
    /\ data = scenario_json
    /\ txt_file.written /\ txt_file.rows = <<scenario_row>>

\* C13: the relabeling of save_data changes Round values of the match list
\* only: the match list has the rows of the table in their order, with the
\* Year, Home and Away of each, and the table written to match_data*.txt
\* has the round numbers of the input
C13_RelabelFrame ==
    (pc = "done" /\ script = "save_data" /\ match_list) =>
        /\ Len(list_file.rows) = Len(txt_file.rows)
        /\ \A i \in 1..Len(list_file.rows) :
              /\ Len(list_file.rows[i]) = 4
              /\ list_file.rows[i][1] = txt_file.rows[i][Col(s_Year)]
              /\ list_file.rows[i][3] = txt_file.rows[i][Col(s_Home)]
              /\ list_file.rows[i][4] = txt_file.rows[i][Col(s_Away)]
        /\ txt_file.rows = save_data_table(data).rows
        /\ \A p \in LeafPaths :
              txt_file.rows[LeafIndex(p)][Col(s_Round)] = PyStr(AncestorKeys(p)[3])

\* a match list with a relabeled round and a round that kept its number
C13_Witness ==
    /\ pc = "done" /\ script = "save_data" /\ match_list
    /\ \E i, j \in 1..Len(list_file.rows) :
          /\ list_file.rows[i][2] = PyStr(s_grand_final)
          /\ txt_file.rows[i][Col(s_Round)] # PyStr(s_grand_final)
          /\ list_file.rows[j][2] = txt_file.rows[j][Col(s_Round)]

\* the distinct Round values of a year in the table written
RoundValuesOfYear(y) ==
    { txt_file.rows[k][Col(s_Round)] :
        k \in { j \in 1..Len(txt_file.rows) : txt_file.rows[j][Col(s_Year)] = y } }

\* C14: a year with fewer than four distinct Round values keeps all its
\* Round values in the match list, whatever happens to the other years of
\* the table
C14_RelabelThreshold ==
    (pc = "done" /\ script = "save_data" /\ match_list) =>
        \A i \in 1..Len(list_file.rows) :
            Cardinality(RoundValuesOfYear(txt_file.rows[i][Col(s_Year)])) < 4 =>
                list_file.rows[i][2] = txt_file.rows[i][Col(s_Round)]

\* a table of a year of two or three rounds, kept, and a relabeled year
C14_Witness ==
    /\ pc = "done" /\ script = "save_data" /\ match_list
    /\ \E i, j \in 1..Len(list_file.rows) :
          /\ Cardinality(RoundValuesOfYear(txt_file.rows[i][Col(s_Year)])) \in {2, 3}
          /\ list_file.rows[i][2] = txt_file.rows[i][Col(s_Round)]
          /\ txt_file.rows[j][Col(s_Year)] # txt_file.rows[i][Col(s_Year)]
          /\ list_file.rows[j][2] = PyStr(s_finals_week_1)

(***************************************************************************)
(* The draw page of a round, and what get_round_data and get_nrl_data      *)
(* extract from it.                                                        *)
(***************************************************************************)
\* t.replace(old, new), scanning from index i: every occurrence, leftmost
\* first
RECURSIVE replace_from(_, _, _, _)
replace_from(t, old, new, i) ==
    IF i > Len(t) THEN <<>>
    ELSE IF MatchAt(t, i, old)
         THEN new \o replace_from(t, old, new, i + Len(old))
         ELSE <<t[i]>> \o replace_from(t, old, new, i + 1)

replace(t, old, new) == replace_from(t, old, new, 1)

\* 'Match: '
s_Match_ == <<77, 97, 116, 99, 104, 58, 32>>
\* 'Scored'
s_Scored == <<83, 99, 111, 114, 101, 100>>
\* 'points'
s_points == <<112, 111, 105, 110, 116, 115>>
\* 'Venue:'
s_Venue_ == <<86, 101, 110, 117, 101, 58>>

\* the seven elements looked up in a match box (HTML_ELEMENTS and
\* CLASS_NAMES; find_data and class_data), by position
CLASS_NAMES ==
    <<"u-visually-hidden", "match-header__title", "match-team__name--home",
      "match-team__score--home", "match-team__name--away",
      "match-team__score--away", "match-venue o-text">>

\* the text of the elements of match box i of a round's page, as the site
\* renders them: ' Match: A v B ', ' Scored 11 points ', ' Venue: ... '
match_box(y, r, i) ==
    << PyStr(<<SPACE>> \o s_Match_ \o team_name(2 * i - 1) \o <<32, 118, 32>>
             \o team_name(2 * i) \o <<SPACE>>),
       PyStr(str(y)),
       PyStr(team_name(2 * i - 1)),
       PyStr(<<LF>> \o s_Scored \o <<SPACE>> \o str(10 + i) \o <<SPACE>> \o s_points \o <<LF>>),
       PyStr(team_name(2 * i)),
       PyStr(s_Scored \o <<SPACE>> \o str(12) \o <<SPACE>> \o s_points),
       PyStr(s_Venue_ \o <<LF, SPACE>> \o venue_of(i) \o <<SPACE>>) >>

\* the match boxes of the page of round r of year y
page_of(y, r) == AsSeq([i \in 1..((y + r) % 3) |-> match_box(y, r, i)])

\* the same page with the venue element of its last box missing; a page
\* without boxes gets one
broken_page_of(y, r) ==
    LET p == IF page_of(y, r) = <<>> THEN <<match_box(y, r, 1)>> ELSE page_of(y, r)
    IN  [p EXCEPT ![Len(p)][7] = PyNone]

\* match_element.find(...).text.strip() for the seven elements: an element
\* that is not there is None, and None has no .text
match_info_error(box) ==
    IF \E j \in 1..Len(CLASS_NAMES) : box[j].ty = "none" THEN "AttributeError" ELSE ""

match_info(box) == AsSeq([j \in 1..Len(CLASS_NAMES) |-> strip(box[j].s)])

\* home_score.replace("Scored", "").replace("points", "").strip()
score_text(t) == strip(replace(replace(t, s_Scored, <<>>), s_points, <<>>))

\* round_match with a MatchData that has no venue
round_match_no_venue(box) ==
    LET info == match_info(box)
    IN  WithoutKey(MatchData(PyStr(replace(info[1], s_Match_, <<>>)),
                             PyStr(info[2]),
                             PyStr(info[3]),
                             PyStr(score_text(info[4])),
                             PyStr(info[5]),
                             PyStr(score_text(info[6])),
                             PyStr(<<>>)),
                   s_venue)

\* NRLScraper.get_round_data: the dict of one match box
round_match(box) ==
    LET info == match_info(box)
    IN  MatchData(PyStr(replace(info[1], s_Match_, <<>>)),
                  PyStr(info[2]),
                  PyStr(info[3]),
                  PyStr(score_text(info[4])),
                  PyStr(info[5]),
                  PyStr(score_text(info[6])),
                  PyStr(strip(replace(info[7], s_Venue_, <<>>))))

\* get_nrl_data: the dict of one match box
nrl_match(box) ==
    LET info == match_info(box)
    IN  PyDict(<<KV(s_Details, PyStr(replace(info[1], s_Match_, <<>>))),
                 KV(s_Date, PyStr(info[2])),
                 KV(s_Home, PyStr(info[3])),
                 KV(s_Home_Score, PyStr(score_text(info[4]))),
                 KV(s_Away, PyStr(info[5])),
                 KV(s_Away_Score, PyStr(score_text(info[6]))),
                 KV(s_Venue, PyStr(strip(replace(info[7], s_Venue_, <<>>))))>>)

\* the error of the extraction loop over the boxes of a page
extract_error(boxes) ==
    FirstError(AsSeq([i \in 1..Len(boxes) |-> match_info_error(boxes[i])]))

\* {str(round_num): matches_data}
round_data_of(sc, round_num, boxes) ==
    PyDict(<<KV(str(round_num),
                PyList([i \in 1..Len(boxes) |->
                    IF sc = "scrape_season_data" THEN round_match(boxes[i])
                    ELSE nrl_match(boxes[i])]))>>)

(***************************************************************************)
(* NRLScraper.scrape_season_data and scrape_nrl_data: one iteration of the *)
(* round loop is SetUpDriver, DriverGet, Extract; `failed' records the     *)
(* iterations whose try block raised.                                      *)
(***************************************************************************)
\* the years on the command line: one or more, in the order given
YearLists == {AsSeq([i \in 1..n |-> 2022 + i]) : n \in 1..ScrapeYears}

\* range(1, max_rounds), or range(input_round, input_round + 1)
RoundRanges ==
    {AsSeq([i \in 1..ScrapeRounds |-> i])} \cup {<<r>> : r \in 1..ScrapeRounds}

year == input_years[year_i]
round_num == round_range[round_i]

InitScrape ==
    /\ pc = "round"
    /\ script \in {"scrape_season_data", "scrape_nrl_data"}
    /\ input_years \in YearLists
    /\ round_range \in RoundRanges
    /\ year_i = 1
    /\ round_i = 1
    /\ year_json_data = <<>>
    /\ match_json_datas = <<>>
    /\ open_drivers = 0
    /\ page = <<>>
    /\ failed = {}
    /\ data = PyNone
    /\ fault = NoFault
    /\ match_list \in (IF script = "scrape_season_data" THEN BOOLEAN ELSE {FALSE})
    /\ table_data = <<>>
    /\ error = ""
    /\ txt_file = NoFile
    /\ list_file = NoFile
    /\ CleanIdle
    /\ DetailIdle

\* where the round loop goes when the handler leaves the loop
except_outside_loop(i, n) == "end_year"

\* where the round loop goes after `except Exception' has logged the error:
\* to its next iteration
except_Exception(i, n) == IF i < n THEN "round" ELSE "end_year"

\* the try block of the iteration raised
RoundRaised ==
    /\ failed' = failed \cup {<<year, round_num>>}
    /\ pc' = except_Exception(round_i, Len(round_range))
    /\ round_i' = IF pc' = "round" THEN round_i + 1 ELSE round_i

\* the try block of the iteration ran to its end
RoundDone ==
    /\ failed' = failed
    /\ pc' = IF round_i < Len(round_range) THEN "round" ELSE "end_year"
    /\ round_i' = IF round_i < Len(round_range) THEN round_i + 1 ELSE round_i

\* driver = set_up_driver(): webdriver.Chrome(options) starts a browser, or
\* raises
SetUpDriver ==
    /\ pc = "round"
    /\ \E started \in BOOLEAN :
          IF started
          THEN /\ open_drivers' = open_drivers + 1
               /\ pc' = "get"
               /\ UNCHANGED <<round_i, failed>>
          ELSE /\ RoundRaised
               /\ UNCHANGED open_drivers
    /\ UNCHANGED <<input_years, round_range, year_i, year_json_data, match_json_datas, page,
                   flatVars, ctVars, detailVars>>

\* driver.get(url); page_source = driver.page_source; driver.quit():
\* get_round_data quits in a finally clause, get_nrl_data after the fetch
DriverGet ==
    /\ pc = "get"
    /\ \E loaded \in {"raises", "page", "broken page"} :
          IF loaded = "raises"
          THEN /\ RoundRaised
               /\ open_drivers' = IF script = "scrape_season_data"
                                  THEN open_drivers - 1 ELSE open_drivers
               /\ UNCHANGED page
          ELSE /\ page' = IF loaded = "page" THEN page_of(year, round_num)
                          ELSE broken_page_of(year, round_num)
               /\ open_drivers' = open_drivers - 1
               /\ pc' = "extract"
               /\ UNCHANGED <<round_i, failed>>
    /\ UNCHANGED <<input_years, round_range, year_i, year_json_data, match_json_datas,
                   flatVars, ctVars, detailVars>>

\* the loop over match_elements, and year_data.append(round_data)
Extract ==
    /\ pc = "extract"
    /\ IF extract_error(page) # ""
       THEN /\ RoundRaised
            /\ UNCHANGED year_json_data
       ELSE /\ RoundDone
            /\ year_json_data' =
                   Append(year_json_data, round_data_of(script, round_num, page))
    /\ page' = <<>>
    /\ UNCHANGED <<input_years, round_range, year_i, match_json_datas, open_drivers,
                   flatVars, ctVars, detailVars>>

\* match_data.append({str(year): year_data}), and the next year starts with
\* year_data = []
EndYear ==
    /\ pc = "end_year"
    /\ match_json_datas' =
           Append(match_json_datas, PyDict(<<KV(str(year), PyList(year_json_data))>>))
    /\ IF year_i < Len(input_years)
       THEN /\ year_i' = year_i + 1
            /\ round_i' = 1
            /\ year_json_data' = <<>>
            /\ pc' = "round"
       ELSE /\ pc' = "return"
            /\ UNCHANGED <<year_i, round_i, year_json_data>>
    /\ UNCHANGED <<input_years, round_range, open_drivers, page, failed, flatVars, ctVars, detailVars>>

\* scrape_season_data: return {"NRL": match_data}
Return ==
    /\ pc = "return"
    /\ script = "scrape_season_data"
    /\ data' = PyDict(<<KV(s_NRL, PyList(match_json_datas))>>)
    /\ pc' = "returned"
    /\ UNCHANGED <<script, fault, match_list, table_data, error, txt_file, list_file,
                   scrapeVars, ctVars, detailVars>>

\* scrape_nrl_data: overall_data = {"NRL": match_json_datas}, written as JSON
WriteJson ==
    /\ pc = "return"
    /\ script = "scrape_nrl_data"
    /\ data' = PyDict(<<KV(s_NRL, PyList(match_json_datas))>>)
    /\ pc' = "written"
    /\ UNCHANGED <<script, fault, match_list, table_data, error, txt_file, list_file,
                   scrapeVars, ctVars, detailVars>>

\* main: scraper.save_data(data, args.output_directory, args.input_year, args)
MainSaveData ==
    /\ pc = "returned"
    /\ LET o == save_data_table(data)
       IN  /\ table_data' = o.rows
           /\ error' = o.err
           /\ pc' = IF o.err = "" THEN "saved" ELSE "save raised"
           /\ txt_file' = IF o.err = "" THEN File(o.rows) ELSE txt_file
           /\ list_file' = IF o.err = "" /\ match_list
                           THEN File(relabel(match_list_of(o.rows))) ELSE list_file
    /\ UNCHANGED <<script, data, fault, match_list, scrapeVars, ctVars, detailVars>>

NextScrape ==
    SetUpDriver \/ DriverGet \/ Extract \/ EndYear \/ Return \/ WriteJson \/ MainSaveData

SpecScrape == InitScrape /\ [][NextScrape]_vars

\* what the scraper was asked for and did not fail on: for each requested
\* year, in order, the rounds of the range that did not raise, in order,
\* each with the matches of its page
RoundsKept(y) == SelectSeq(round_range, LAMBDA r : <<y, r>> \notin failed)

YearKept(y) ==
    PyDict(<<KV(str(y),
             PyList(AsSeq([j \in 1..Len(RoundsKept(y)) |->
                 round_data_of(script, RoundsKept(y)[j], page_of(y, RoundsKept(y)[j]))])))>>)

AllKept ==
    PyDict(<<KV(s_NRL,
             PyList(AsSeq([i \in 1..Len(input_years) |-> YearKept(input_years[i])])))>>)

\* C6: when the scrape has ended, a round that raised is absent and every
\* other round of every requested year is there, in round order, under one
\* entry per year; while it runs, a failure leaves the loop at the next round
\* of the same year
C6_PartialOutput ==
    /\ pc \in {"returned", "written", "saved", "save raised"} => data = AllKept
    /\ pc \in {"round", "get", "extract"} =>
          /\ year_i \in 1..Len(input_years) /\ round_i \in 1..Len(round_range)
          /\ \A j \in 1..(round_i - 1) :
                <<year, round_range[j]>> \in failed
                \/ \E k \in 1..Len(year_json_data) :
                      HasKey(year_json_data[k], str(round_range[j]))
          /\ Len(year_json_data) + Cardinality({f \in failed : f[1] = year}) = round_i - 1

\* a scrape that ended, in which the first round of the first year raised,
\* a later round of that year did not, and a round of the next year did not
C6_Witness ==
    /\ pc \in {"returned", "written"}
    /\ Len(input_years) >= 2 /\ Len(round_range) >= 2
    /\ <<input_years[1], round_range[1]>> \in failed
    /\ <<input_years[1], round_range[2]>> \notin failed
    /\ \E r \in 1..Len(round_range) : <<input_years[2], round_range[r]>> \notin failed

\* the fields of a match record that the flattener of the scraper's output
\* reads: save_data for scrape_season_data, convert_json_to_table for the
\* file of scrape_nrl_data
FieldsRead ==
    IF script = "scrape_season_data"
    THEN { MatchData_fields[i] : i \in 1..Len(MatchData_fields) }
    ELSE { headers[i] : i \in 4..Len(headers) }

\* v is a dict of one key
OneKey(v) == v.ty = "dict" /\ Len(v.items) = 1

\* the outcome of flattening the scraper's output
Flattened ==
    IF script = "scrape_season_data"
    THEN save_data_table(data) ELSE convert_json_to_table(data)

\* C19: what a scraper returns is {competition: [{year: [{round: [match
\* records]}]}]}, with one year entry for each requested year, in the
\* order requested, whatever rounds failed; every match record has every
\* field its flattener reads, and flattening it raises nothing
C19_ShapeAgreement ==
    pc \in {"returned", "written", "saved", "save raised"} =>
        /\ OneKey(data) /\ data.items[1].k = s_NRL
        /\ data.items[1].v.ty = "list"
        /\ Len(data.items[1].v.items) = Len(input_years)
        /\ \A i \in 1..Len(input_years) :
              LET year_entry == data.items[1].v.items[i].v
              IN  /\ OneKey(year_entry)
                  /\ year_entry.items[1].k = str(input_years[i])
                  /\ year_entry.items[1].v.ty = "list"
                  /\ \A j \in 1..Len(year_entry.items[1].v.items) :
                        LET round_entry == year_entry.items[1].v.items[j].v
                        IN  /\ OneKey(round_entry)
                            /\ round_entry.items[1].v.ty = "list"
                            /\ \A k \in 1..Len(round_entry.items[1].v.items) :
                                  LET match == round_entry.items[1].v.items[k].v
                                  IN  /\ match.ty = "dict"
                                      /\ \A f \in FieldsRead : HasKey(match, f)
        /\ Flattened.err = ""
        /\ pc # "save raised"

\* an output with a year of which every round failed and a year with
\* matches, flattened to a table
C19_Witness ==
    /\ pc = "saved"
    /\ Len(input_years) = 2
    /\ \E i \in 1..2 :
          /\ data.items[1].v.items[i].v.items[1].v.items = <<>>
          /\ \A r \in 1..Len(round_range) : <<input_years[i], round_range[r]>> \in failed
    /\ Len(round_range) = 2
    /\ Len(txt_file.rows) >= 2
    /\ txt_file.rows = Flattened.rows

\* C23: a driver that was started is quit before its function returns or
\* raises: at most one driver is open at a time, and none is open outside
\* the fetch of a page
C23_DriverLifecycle ==
    /\ open_drivers <= 1
    /\ pc # "get" => open_drivers = 0

(***************************************************************************)
(* get_detailed_nrl_data: what is read from the page of one match.  A page *)
(* (soup) is a record of what each find and find_all of the function       *)
(* returns: texts, or None for an element that is not there.               *)
(***************************************************************************)
\* text.split(): the maximal runs of non-whitespace characters
RECURSIVE split_from(_, _, _)
split_from(t, i, word) ==
    IF i > Len(t) THEN (IF word = <<>> THEN <<>> ELSE <<word>>)
    ELSE IF t[i] \in Whitespace
         THEN (IF word = <<>> THEN <<>> ELSE <<word>>) \o split_from(t, i + 1, <<>>)
         ELSE split_from(t, i + 1, Append(word, t[i]))

split(t) == split_from(t, 1, <<>>)

\* ' '.join(parts)
RECURSIVE join(_)
join(parts) ==
    IF parts = <<>> THEN <<>>
    ELSE IF Len(parts) = 1 THEN parts[1]
    ELSE parts[1] \o <<SPACE>> \o join(Tail(parts))

\* text.split(":")[0]: the text before the first colon
before_colon(t) ==
    IF \E i \in 1..Len(t) : t[i] = 58
    THEN SubSeq(t, 1, (CHOOSE i \in 1..Len(t) : t[i] = 58 /\ \A j \in 1..(i - 1) : t[j] # 58) - 1)
    ELSE t

\* ''.join(filter(lambda x: x.isdigit() or x == '.', text))
digits_of(t) == SelectSeq(t, LAMBDA c : (c >= 48 /\ c <= 57) \/ c = 46)

\* text.upper()
upper(t) ==
    AsSeq([i \in 1..Len(t) |-> IF t[i] >= 97 /\ t[i] <= 122 THEN t[i] - 32 ELSE t[i]])

\* team.replace(" ", "-")
replace_hyphen(t) == AsSeq([i \in 1..Len(t) |-> IF t[i] = SPACE THEN 45 ELSE t[i]])

\* numbers[::2] (start = 1) and numbers[1::2] (start = 2)
EveryOther(numbers, start) ==
    AsSeq([i \in 1..((Len(numbers) + 2 - start) \div 2) |-> numbers[2 * i + start - 2]])

\* for k, v in zip(keys, values): d[k] = v, for keys that d has
ZipAssign(d, keys, values) ==
    LET n == IF Len(keys) < Len(values) THEN Len(keys) ELSE Len(values)
    IN  PyDict(AsSeq([i \in 1..Len(d.items) |->
            IF \E j \in 1..n : keys[j] = d.items[i].k
            THEN KV(d.items[i].k,
                    PyStr(values[CHOOSE j \in 1..n : keys[j] = d.items[i].k]))
            ELSE d.items[i]]))

\* the keys of a dict, in order
Keys(d) == AsSeq([i \in 1..Len(d.items) |-> d.items[i].k])

\* home_possession, away_possession: both stay None when the home element is
\* not there, the away one when only it is not
possession_of(soup) ==
    IF soup.home_possession.ty = "none" THEN <<PyNone, PyNone>>
    ELSE IF soup.away_possession.ty = "none"
         THEN <<PyStr(strip(soup.home_possession.s)), PyNone>>
         ELSE <<PyStr(strip(soup.home_possession.s)), PyStr(strip(soup.away_possession.s))>>

\* home_bars, away_bars: the labels in page order under the keys of BARS_DATA
bars_of(labels) ==
    ZipAssign(BARS_DATA, BARS_DATA_keys, AsSeq([i \in 1..Len(labels) |-> strip(labels[i])]))

\* home_donut (start = 1), away_donut (start = 2)
donut_of(elements, start) ==
    ZipAssign(DONUT_DATA, DONUT_DATA_keys,
              EveryOther(AsSeq([i \in 1..Len(elements) |-> digits_of(elements[i])]), start))

\* the number of <li> entries parsed before one raises: an entry without
\* text has no last part
GoodEntries(lis) ==
    IF \E i \in 1..Len(lis) : split(strip(lis[i])) = <<>>
    THEN (CHOOSE i \in 1..Len(lis) :
             /\ split(strip(lis[i])) = <<>>
             /\ \A j \in 1..(i - 1) : split(strip(lis[j])) # <<>>) - 1
    ELSE Len(lis)

\* try_lists with the name appended before number = parts[-1] is
\* evaluated: the entry that raises leaves its (empty) name behind
try_lists_name_first(ul) ==
    IF ul.ty = "none" THEN [names |-> <<>>, minutes |-> <<>>]
    ELSE LET lis == AsSeq([i \in 1..Len(ul.items) |-> ul.items[i].v.s])
             parts(i) == split(strip(lis[i]))
             n == GoodEntries(lis)
         IN  [names |-> AsSeq([i \in 1..(IF n < Len(lis) THEN n + 1 ELSE n) |->
                            PyStr(join(SubSeq(parts(i), 1, Len(parts(i)) - 1)))]),
              minutes |-> AsSeq([i \in 1..n |-> PyStr(parts(i)[Len(parts(i))])])]

\* try_names_list and try_minute_list of one team; ul is None when the page
\* has no list for the team
try_lists(ul) ==
    IF ul.ty = "none" THEN [names |-> <<>>, minutes |-> <<>>]
    ELSE LET lis == AsSeq([i \in 1..Len(ul.items) |-> ul.items[i].v.s])
             parts(i) == split(strip(lis[i]))
         IN  [names |-> AsSeq([i \in 1..GoodEntries(lis) |->
                            PyStr(join(SubSeq(parts(i), 1, Len(parts(i)) - 1)))]),
              minutes |-> AsSeq([i \in 1..GoodEntries(lis) |->
                            PyStr(parts(i)[Len(parts(i))])])]

\* list[0] if len(list) > 0 else None
first_or_None(list) == IF Len(list) > 0 THEN list[1] ELSE PyNone

\* overall_first_try_scorer, overall_first_try_minute and
\* overall_first_scorer_team; the first minutes are compared as str
overall_first_try(home, away, h_scorer, h_minute, a_scorer, a_minute) ==
    IF a_scorer.ty = "none" /\ h_scorer.ty = "none"
    THEN [scorer |-> PyNone, minute |-> PyNone, team |-> PyNone]
    ELSE IF a_minute.ty = "none"
         THEN [scorer |-> h_scorer, minute |-> h_minute, team |-> PyStr(home)]
    ELSE IF h_minute.ty = "none"
         THEN [scorer |-> a_scorer, minute |-> a_minute, team |-> PyStr(away)]
    ELSE IF StrLess(h_minute.s, a_minute.s)
         THEN [scorer |-> a_scorer, minute |-> a_minute, team |-> PyStr(away)]
    ELSE [scorer |-> h_scorer, minute |-> h_minute, team |-> PyStr(home)]

\* any(span.text.strip().upper() == word for span in span_elements)
exists(word, span_elements) ==
    \E i \in 1..Len(span_elements) : upper(strip(span_elements[i])) = word

\* the loop over DONUT_DATA_2_WORDS: DONUT_DATA_2[word.lower().replace(' ',
\* '_')] = -10 for each word no span shows; the other values stay
mark_absent(donut_data_2, span_elements) ==
    PyDict(AsSeq([i \in 1..Len(donut_data_2.items) |->
        IF \E w \in 1..Len(DONUT_DATA_2_WORDS) :
              /\ header_key(DONUT_DATA_2_WORDS[w]) = donut_data_2.items[i].k
              /\ ~exists(DONUT_DATA_2_WORDS[w], span_elements)
        THEN KV(donut_data_2.items[i].k, PyInt(-10))
        ELSE donut_data_2.items[i]]))

\* filtered_home_stats: the keys whose value is not -10
filtered_home_stats(game_stats) ==
    Keys(PyDict(SelectSeq(game_stats.items, LAMBDA it : it.v # PyInt(-10))))

\* home_game_stats (start = 1) and away_game_stats (start = 2): the copy of
\* DONUT_DATA_2, untouched when reading a value raises
game_stats_of(donut_data_2, span_elements, start) ==
    IF \E i \in 1..Len(span_elements) : span_elements[i].ty = "none"
    THEN donut_data_2
    ELSE ZipAssign(donut_data_2, filtered_home_stats(donut_data_2),
             EveryOther(AsSeq([i \in 1..Len(span_elements) |-> strip(span_elements[i].s)]),
                        start))

\* the number of elements a loop handles before one raises
GoodPrefix(bad) ==
    IF \E i \in 1..Len(bad) : bad[i]
    THEN (CHOOSE i \in 1..Len(bad) : bad[i] /\ \A j \in 1..(i - 1) : ~bad[j]) - 1
    ELSE Len(bad)

\* ref_names, ref_positions and main_ref_name: the name is appended before
\* the position is looked up, and main_ref_name is set after the loop
refs_of(a_elements) ==
    LET bad == AsSeq([i \in 1..Len(a_elements) |->
                 a_elements[i].name.ty = "none" \/ a_elements[i].position.ty = "none"])
        n == GoodPrefix(bad)
        raised == n < Len(a_elements)
        named == IF raised /\ a_elements[n + 1].name.ty # "none" THEN n + 1 ELSE n
    IN  [ref_names |-> AsSeq([i \in 1..named |-> PyStr(strip(a_elements[i].name.s))]),
         ref_positions |-> AsSeq([i \in 1..n |-> PyStr(strip(a_elements[i].position.s))]),
         main_ref |-> IF raised \/ n = 0 THEN PyNone
                      ELSE PyStr(strip(a_elements[1].name.s))]

\* 'Ground Conditions'
s_Ground_Conditions ==
    <<71, 114, 111, 117, 110, 100, 32, 67, 111, 110, 100, 105, 116, 105, 111, 110, 115>>
\* 'Weather'
s_Weather == <<87, 101, 97, 116, 104, 101, 114>>

\* ground_condition or weather_condition: the value of the last element of
\* that type before one without a <span>, "" without any
condition_of(p_elements, type) ==
    LET n == GoodPrefix(AsSeq([i \in 1..Len(p_elements) |-> p_elements[i].span.ty = "none"]))
        of_type == {i \in 1..n : strip(before_colon(strip(p_elements[i].text))) = type}
    IN  IF of_type = {} THEN <<>>
        ELSE strip(p_elements[CHOOSE i \in of_type : \A j \in of_type : j <= i].span.s)

(***************************************************************************)
(* The pages of the match centre the scrape is run on.                     *)
(***************************************************************************)
\* the texts of a list of <li>, <dd>, <p> or <span> elements
Texts_of(ts) == PyList(AsSeq([i \in 1..Len(ts) |-> PyStr(ts[i])]))

\* a page with every element the function looks for: possession, 26 bar
\* labels a side, 8 donut values, tries of both teams (the home team's first
\* at 20', the away team's first at 30'), the seven summary groups, two
\* officials, ground and weather
FullPage ==
    [home_possession |-> PyStr(<<32, 53, 50, 37, 32>>),                \* ' 52% '
     away_possession |-> PyStr(<<52, 56, 37>>),                        \* '48%'
     home_bars |-> AsSeq([j \in 1..Len(BARS_DATA_keys) |->
                     IF j = 1 THEN <<50, 56, 58, 51, 48>>              \* '28:30'
                     ELSE IF j = 3 THEN <<49, 44, 52, 53, 48>>         \* '1,450'
                     ELSE str(100 + j)]),
     away_bars |-> AsSeq([j \in 1..Len(BARS_DATA_keys) |->
                     IF j = 1 THEN <<51, 49, 58, 51, 48>>              \* '31:30'
                     ELSE str(200 + j)]),
     donuts |-> << <<56, 53, 37>>, <<56, 48, 37>>,                     \* '85%', '80%'
                   <<51, 46, 53, 50, 115>>, <<51, 46, 54, 48, 115>>,   \* '3.52s', '3.60s'
                   <<55, 49, 37>>, <<55, 50, 37>>,                     \* '71%', '72%'
                   <<57, 49, 37>>, <<57, 50, 37>> >>,                  \* '91%', '92%'
     home_tries |-> Texts_of(<< <<74, 32, 83, 32, 50, 48, 39>>,        \* "J S 20'"
                                <<65, 32, 76, 32, 52, 49, 39>> >>),    \* "A L 41'"
     away_tries |-> Texts_of(<< <<66, 32, 74, 32, 51, 48, 39>> >>),    \* "B J 30'"
     summary_names |-> << <<84, 114, 105, 101, 115>>,                  \* 'Tries'
         <<67, 111, 110, 118, 101, 114, 115, 105, 111, 110, 115>>,     \* 'Conversions'
         <<80, 101, 110, 97, 108, 116, 121, 32, 71, 111, 97, 108, 115>>,   \* 'Penalty Goals'
         <<83, 105, 110, 32, 66, 105, 110, 115>>,                      \* 'Sin Bins'
         <<49, 32, 80, 111, 105, 110, 116, 32, 70, 105, 101, 108, 100, 32, 71, 111, 97, 108, 115>>,
         <<50, 32, 80, 111, 105, 110, 116, 32, 70, 105, 101, 108, 100, 32, 71, 111, 97, 108, 115>>,
         <<72, 97, 108, 102, 32, 84, 105, 109, 101>> >>,               \* 'Half Time'
     summary_values |-> AsSeq([j \in 1..14 |-> PyStr(str(j))]),
     officials |-> << [name |-> PyStr(<<65, 32, 75>>),                 \* 'A K'
                       position |-> PyStr(<<82, 101, 102>>)],          \* 'Ref'
                      [name |-> PyStr(<<66, 32, 83>>),                 \* 'B S'
                       position |-> PyStr(<<84, 74>>)] >>,             \* 'TJ'
     weather |-> << [text |-> s_Ground_Conditions \o <<58, 71, 111, 111, 100>>,
                     span |-> PyStr(<<71, 111, 111, 100>>)],           \* 'Good'
                    [text |-> s_Weather \o <<58, 70, 105, 110, 101>>,
                     span |-> PyStr(<<70, 105, 110, 101>>)] >>]        \* 'Fine'

\* a page of a match with little on it: no away possession, three home bar
\* labels, three donut values, no list of home tries, an away try entry
\* without text between two others, three of the seven summary groups, an
\* official without a position, weather without a value
SparsePage ==
    [home_possession |-> PyStr(<<53, 48, 37>>),                        \* '50%'
     away_possession |-> PyNone,
     home_bars |-> << <<50, 57, 58, 48, 48>>, <<49, 50, 48>>, <<57, 57, 48>> >>,
     away_bars |-> <<>>,
     donuts |-> << <<54, 53, 37>>, <<54, 48, 37>>, <<52, 46, 48, 115>> >>,
     home_tries |-> PyNone,
     away_tries |-> Texts_of(<< <<75, 32, 84, 32, 55, 39>>,            \* "K T 7'"
                                <<SPACE>>,
                                <<77, 32, 70, 32, 51, 53, 39>> >>),    \* "M F 35'"
     summary_names |-> << <<84, 114, 105, 101, 115>>,                  \* 'Tries'
         <<67, 111, 110, 118, 101, 114, 115, 105, 111, 110, 115>>,     \* 'Conversions'
         <<72, 97, 108, 102, 32, 84, 105, 109, 101>> >>,               \* 'Half Time'
     summary_values |-> AsSeq([j \in 1..6 |-> PyStr(str(20 + j))]),
     officials |-> << [name |-> PyStr(<<65, 32, 75>>), position |-> PyNone] >>,
     weather |-> << [text |-> s_Ground_Conditions \o <<58, 71, 111, 111, 100>>,
                     span |-> PyStr(<<71, 111, 111, 100>>)],
                    [text |-> s_Weather \o <<58>>, span |-> PyNone] >>]

\* a page without any of the elements, as for a match that was not played
BarePage ==
    [home_possession |-> PyNone,
     away_possession |-> PyNone,
     home_bars |-> <<>>,
     away_bars |-> <<>>,
     donuts |-> <<>>,
     home_tries |-> PyNone,
     away_tries |-> PyNone,
     summary_names |-> <<>>,
     summary_values |-> <<>>,
     officials |-> <<>>,
     weather |-> <<>>]

Pages == {FullPage, SparsePage, BarePage}

(***************************************************************************)
(* stats_data_temp, match_data_temp and try_data_temp of one match.        *)
(***************************************************************************)
\* match.home_team.replace(" ", "-") and match.away_team.replace(" ", "-")
home_of(match) == replace_hyphen(match.home_team)
away_of(match) == replace_hyphen(match.away_team)

stats_data_temp(match, soup, donut_data_2) ==
    LET home_tries == try_lists(soup.home_tries)
        away_tries == try_lists(soup.away_tries)
        game_stats == mark_absent(donut_data_2, soup.summary_names)
    IN  game_of_teams(home_of(match), away_of(match),
            team_stats_of(s_home, possession_of(soup)[1],
                first_or_None(home_tries.names), first_or_None(home_tries.minutes),
                bars_of(soup.home_bars), donut_of(soup.donuts, 1),
                game_stats_of(game_stats, soup.summary_values, 1)),
            team_stats_of(s_away, possession_of(soup)[2],
                first_or_None(away_tries.names), first_or_None(away_tries.minutes),
                bars_of(soup.away_bars), donut_of(soup.donuts, 2),
                game_stats_of(game_stats, soup.summary_values, 2)))

match_data_temp(match, soup) ==
    LET home_tries == try_lists(soup.home_tries)
        away_tries == try_lists(soup.away_tries)
        first == overall_first_try(home_of(match), away_of(match),
                     first_or_None(home_tries.names), first_or_None(home_tries.minutes),
                     first_or_None(away_tries.names), first_or_None(away_tries.minutes))
        refs == refs_of(soup.officials)
    IN  game_of_match(home_of(match), away_of(match),
            first.scorer, first.minute, first.team,
            refs.ref_names, refs.ref_positions, refs.main_ref,
            condition_of(soup.weather, s_Ground_Conditions),
            condition_of(soup.weather, s_Weather))

try_data_temp(match, soup) ==
    LET home_tries == try_lists(soup.home_tries)
        away_tries == try_lists(soup.away_tries)
    IN  game_of_teams(home_of(match), away_of(match),
            team_tries_of(s_home, home_tries.names, home_tries.minutes),
            team_tries_of(s_away, away_tries.names, away_tries.minutes))

(***************************************************************************)
(* get_detailed_nrl_data: the loops over the years, the rounds of a year   *)
(* and the matches of a round, and the three tables.                       *)
(***************************************************************************)
\* the names of the teams of the i-th line of the input file
input_team(k) == IF k % 2 = 0 THEN <<64 + k, SPACE, 84>> ELSE <<64 + k>>

MatchInput(y, r, i) ==
    [year |-> y, round |-> r, home_team |-> input_team(2 * i - 1),
     away_team |-> input_team(2 * i)]

\* the year and round of a line of the input file
Slots == {<<y, r>> : y \in {2023, 2024}, r \in {1, 2}}

\* the input lists: up to MaxGames matches, in any order of years and rounds
MatchLists ==
    UNION {{AsSeq([i \in 1..n |-> MatchInput(q[i][1], q[i][2], i)]) : q \in SeqsOf(Slots, n)}
           : n \in 0..MaxGames}

\* the keys of matches_by_year and of matches_by_round: in the order in
\* which they first appear
group_keys(xs) == unique(xs)

matches_by_year(y) == SelectSeq(matches, LAMBDA m : m.year = y)
years_of_matches == group_keys(AsSeq([i \in 1..Len(matches) |-> matches[i].year]))

matches_by_round(year_matches, r) == SelectSeq(year_matches, LAMBDA m : m.round = r)
rounds_of(year_matches) ==
    group_keys(AsSeq([i \in 1..Len(year_matches) |-> year_matches[i].round]))

\* the year, the round and the match the loops are at
this_year == years_of_matches[at_year]
this_round == rounds_of(matches_by_year(this_year))[at_round]
round_matches == matches_by_round(matches_by_year(this_year), this_round)
this_match == round_matches[at_match]

InitDetailed ==
    /\ matches \in MatchLists
    /\ pc = IF matches = <<>> THEN "finish" ELSE "match"
    /\ at_year = 1 /\ at_round = 1 /\ at_match = 1
    /\ round_stats_data = <<>> /\ round_match_data = <<>> /\ round_try_data = <<>>
    /\ match_stats_data_combined = Unbound
    /\ match_detailed_data_combined = Unbound
    /\ match_try_data_combined = Unbound
    /\ year_stats_data = <<>> /\ year_match_data = <<>> /\ year_try_data = <<>>
    /\ year_stats_data_combined = Unbound
    /\ year_match_data_combined = Unbound
    /\ year_try_data_combined = Unbound
    /\ DONUT_DATA_2 = DONUT_DATA_2_initial
    /\ df_stats = NoFile /\ df_match = NoFile /\ df_try = NoFile
    /\ processed = <<>>
    /\ FlatIdle
    /\ CleanIdle
    /\ ScrapeIdle

\* the body of `for match in round_matches': the driver is started, the
\* page is fetched (driver.get may raise, and nothing catches it), the driver
\* is quit, and the three dicts of the match are appended
ScrapeMatch ==
    /\ pc = "match"
    /\ \/ /\ pc' = "raised"
          /\ error' = "WebDriverException"
          /\ open_drivers' = open_drivers + 1
          /\ UNCHANGED <<at_match, roundVars, DONUT_DATA_2, processed>>
       \/ \E soup \in Pages :
             /\ round_stats_data' =
                    Append(round_stats_data, stats_data_temp(this_match, soup, DONUT_DATA_2))
             /\ round_match_data' =
                    Append(round_match_data, match_data_temp(this_match, soup))
             /\ round_try_data' =
                    Append(round_try_data, try_data_temp(this_match, soup))
             /\ DONUT_DATA_2' = mark_absent(DONUT_DATA_2, soup.summary_names)
             /\ processed' = Append(processed, [match |-> this_match, soup |-> soup])
             /\ IF at_match < Len(round_matches)
                THEN at_match' = at_match + 1 /\ pc' = "match"
                ELSE at_match' = at_match /\ pc' = "end_round"
             /\ UNCHANGED <<error, open_drivers>>
    /\ UNCHANGED <<matches, at_year, at_round, combinedVars, yearVars, dfVars, ctVars,
                   script, data, fault, match_list, table_data, txt_file, list_file,
                   input_years, round_range, year_i, round_i, year_json_data,
                   match_json_datas, page, failed>>

\* after the loop over the matches of a round: the three {round: list}
\* dicts; the next round starts with empty round lists
EndRound ==
    /\ pc = "end_round"
    /\ match_stats_data_combined' =
           PyDict(<<KV(str(this_round), PyList(round_stats_data))>>)
    /\ match_detailed_data_combined' =
           PyDict(<<KV(str(this_round), PyList(round_match_data))>>)
    /\ match_try_data_combined' =
           PyDict(<<KV(str(this_round), PyList(round_try_data))>>)
    /\ IF at_round < Len(rounds_of(matches_by_year(this_year)))
       THEN /\ at_round' = at_round + 1
            /\ at_match' = 1
            /\ round_stats_data' = <<>>
            /\ round_match_data' = <<>>
            /\ round_try_data' = <<>>
            /\ pc' = "match"
       ELSE /\ pc' = "year_end"
            /\ UNCHANGED <<at_round, at_match, roundVars>>
    /\ UNCHANGED <<matches, at_year, yearVars, DONUT_DATA_2, dfVars, processed,
                   ctVars, flatVars, scrapeVars>>

\* after the loop over the rounds of a year: the appends to the year lists
\* and the three {year: list} dicts; the next year starts with empty lists
EndYearDetailed ==
    /\ pc = "year_end"
    /\ year_stats_data_combined' =
           PyDict(<<KV(str(this_year),
                       PyList(Append(year_stats_data, match_stats_data_combined)))>>)
    /\ year_match_data_combined' =
           PyDict(<<KV(str(this_year),
                       PyList(Append(year_match_data, match_detailed_data_combined)))>>)
    /\ year_try_data_combined' =
           PyDict(<<KV(str(this_year),
                       PyList(Append(year_try_data, match_try_data_combined)))>>)
    /\ IF at_year < Len(years_of_matches)
       THEN /\ at_year' = at_year + 1
            /\ at_round' = 1
            /\ at_match' = 1
            /\ year_stats_data' = <<>> /\ year_match_data' = <<>> /\ year_try_data' = <<>>
            /\ round_stats_data' = <<>> /\ round_match_data' = <<>> /\ round_try_data' = <<>>
            /\ pc' = "match"
       ELSE /\ year_stats_data' = Append(year_stats_data, match_stats_data_combined)
            /\ year_match_data' = Append(year_match_data, match_detailed_data_combined)
            /\ year_try_data' = Append(year_try_data, match_try_data_combined)
            /\ pc' = "finish"
            /\ UNCHANGED <<at_year, at_round, at_match, roundVars>>
    /\ UNCHANGED <<matches, combinedVars, DONUT_DATA_2, dfVars, processed,
                   ctVars, flatVars, scrapeVars>>

\* master_stats_data, master_match_data, master_try_data: {"NRL": [c]} for
\* the one {year: list} dict c appended after the loop over the years
master_of(year_combined) == PyDict(<<KV(s_NRL, PyList(<<year_combined>>))>>)

\* a column of a DataFrame built from rows
Column(rows, c) == AsSeq([i \in 1..Len(rows) |-> rows[i][c]])

\* the column has a numeric dtype (int64, or float64 with None as NaN): the
\* .str accessor raises AttributeError
numeric_dtype(values) ==
    /\ \A i \in 1..Len(values) : values[i].ty \in {"int", "none"}
    /\ \E i \in 1..Len(values) : values[i].ty = "int"

\* df[name] = df[name].str.replace(old, ""): a value that is not a str
\* becomes NaN
str_replace(rows, c, old) ==
    AsSeq([i \in 1..Len(rows) |->
        [rows[i] EXCEPT ![c] = IF rows[i][c].ty = "str"
                               THEN PyStr(SelectSeq(rows[i][c].s, LAMBDA ch : ch # old))
                               ELSE PyNone]])

\* the index of a column of a table
ColumnOf(table_headers, name) ==
    CHOOSE c \in 1..Len(table_headers) : table_headers[c] = name

First_Try_Time == ColumnOf(stats_data_headers, <<70, 105, 114, 115, 116, 32, 84, 114, 121, 32, 84, 105, 109, 101>>)
Time_In_Possession == ColumnOf(stats_data_headers, <<84, 105, 109, 101, 32, 73, 110, 32, 80, 111, 115, 115, 101, 115, 115, 105, 111, 110>>)
Overall_First_Try_Minute == ColumnOf(match_data_headers, <<79, 118, 101, 114, 97, 108, 108, 32, 70, 105, 114, 115, 116, 32, 84, 114, 121, 32, 77, 105, 110, 117, 116, 101>>)

\* after the loop over the years: the appends to the competition lists, the
\* three loops, the DataFrames and the three files
Finish ==
    /\ pc = "finish"
    /\ IF year_stats_data_combined = Unbound
       THEN /\ error' = "UnboundLocalError"
            /\ pc' = "raised"
            /\ UNCHANGED dfVars
       ELSE LET stats == stats_loop(master_of(year_stats_data_combined))
                match == match_loop(master_of(year_match_data_combined))
                try == try_loop(master_of(year_try_data_combined))
                raised == FirstError(<<stats.err, match.err, try.err,
                    IF numeric_dtype(Column(stats.rows, First_Try_Time))
                       \/ numeric_dtype(Column(stats.rows, Time_In_Possession))
                       \/ numeric_dtype(Column(match.rows, Overall_First_Try_Minute))
                    THEN "AttributeError" ELSE "">>)
            IN  /\ error' = raised
                /\ pc' = IF raised = "" THEN "written" ELSE "raised"
                /\ df_stats' = IF raised # "" THEN df_stats
                               ELSE File(str_replace(str_replace(stats.rows,
                                             First_Try_Time, 39), Time_In_Possession, 44))
                /\ df_match' = IF raised # "" THEN df_match
                               ELSE File(str_replace(match.rows, Overall_First_Try_Minute, 39))
                /\ df_try' = IF raised # "" THEN df_try ELSE File(try.rows)
    /\ UNCHANGED <<matches, at_year, at_round, at_match, roundVars, combinedVars, yearVars,
                   DONUT_DATA_2, processed, ctVars, script, data, fault, match_list,
                   table_data, txt_file, list_file, scrapeVars>>

NextDetailed == ScrapeMatch \/ EndRound \/ EndYearDetailed \/ Finish

SpecDetailed == InitDetailed /\ [][NextDetailed]_vars

\* the rows of a written table that belong to a match of the input
RowsOfMatch(file, m) ==
    {i \in 1..Len(file.rows) :
        /\ file.rows[i][2] = PyStr(str(m.year))
        /\ file.rows[i][3] = PyStr(str(m.round))
        /\ file.rows[i][4] = PyStr(home_of(m) \o s__v_ \o away_of(m))}

\* C5: when get_detailed_nrl_data has written its tables, every match it
\* scraped, of every round of every year of the input list, has its two
\* team rows in the statistics table and its row in the detailed table
C5_Coverage ==
    pc = "written" =>
        \A i \in 1..Len(processed) :
            /\ Cardinality(RowsOfMatch(df_stats, processed[i].match)) = 2
            /\ Cardinality(RowsOfMatch(df_match, processed[i].match)) = 1

\* the team dicts of the games of round_stats_data
TeamLeaves ==
    UNION {{round_stats_data[g].items[1].v.items[t].v :
              t \in 1..Len(round_stats_data[g].items[1].v.items)}
           : g \in 1..Len(round_stats_data)}

\* C7: every team dict the scraper builds has, for every column of
\* stats_data_headers behind the ancestor columns, a field whose name is the
\* column name lower-cased with spaces replaced by underscores
C7_NormalizedKeys ==
    \A team_stats \in TeamLeaves :
        \A c \in 6..Len(stats_data_headers) :
            HasKey(team_stats, header_key(stats_data_headers[c]))

\* the page the g-th game of round_try_data was read from
SoupOfGame(g) == processed[Len(processed) - Len(round_try_data) + g].soup

\* the <li> texts of the team's list on a page, none without the list
EntriesOf(soup, home_away) ==
    LET ul == IF home_away = s_home THEN soup.home_tries ELSE soup.away_tries
    IN  IF ul.ty = "none" THEN <<>>
        ELSE AsSeq([i \in 1..Len(ul.items) |-> ul.items[i].v.s])

\* C18: the try_names and try_minutes of every team of every match have
\* the same length, also where an entry of the page's list made the loop
\* stop, and the i-th name and the i-th minute are those of the i-th entry
C18_EqualTryLists ==
    \A g \in 1..Len(round_try_data) :
        LET teams == round_try_data[g].items[1].v.items
        IN  \A t \in 1..Len(teams) :
                LET try_names == Lookup(teams[t].v, s_try_names).items
                    try_minutes == Lookup(teams[t].v, s_try_minutes).items
                    lis == EntriesOf(SoupOfGame(g), Lookup(teams[t].v, s_home_away).s)
                IN  /\ Len(try_names) = Len(try_minutes)
                    /\ Len(try_names) <= Len(lis)
                    /\ \A i \in 1..Len(try_names) :
                          try_names[i].v.s \o <<SPACE>> \o try_minutes[i].v.s
                              = join(split(strip(lis[i])))

\* a team whose list has an entry without text between two others
C18_Witness ==
    \E g \in 1..Len(round_try_data) :
        LET teams == round_try_data[g].items[1].v.items
        IN  \E t \in 1..Len(teams) :
                LET try_names == Lookup(teams[t].v, s_try_names).items
                    lis == EntriesOf(SoupOfGame(g), Lookup(teams[t].v, s_home_away).s)
                IN  /\ Len(try_names) = 1
                    /\ Len(lis) = 3
                    /\ split(strip(lis[2])) = <<>>
\* the match and the page the g-th game of round_stats_data was read from
ProcessedOfGame(g) == processed[Len(processed) - Len(round_stats_data) + g]

\* C20: the tries, conversions, penalty_goals, sin_bins, 1_point_field_goals,
\* 2_point_field_goals and half_time of both teams of a match are those its
\* page gives when it is the first match of a run, whatever matches were
\* processed before it
C20_Independence ==
    \A g \in 1..Len(round_stats_data) :
        LET alone == stats_data_temp(ProcessedOfGame(g).match, ProcessedOfGame(g).soup,
                                     DONUT_DATA_2_initial)
            teams == round_stats_data[g].items[1].v.items
        IN  \A t \in 1..Len(teams) :
                \A k \in 1..Len(DONUT_DATA_2_keys) :
                    Lookup(teams[t].v, DONUT_DATA_2_keys[k])
                        = Lookup(alone.items[1].v.items[t].v, DONUT_DATA_2_keys[k])

\* the minute a try minute such as "20'" writes, as a number
MinuteOf(minute) == int(SelectSeq(minute.s, LAMBDA c : c >= 48 /\ c <= 57))

\* the first try of the overall_first_try_* fields of a game dict
OverallOf(game) ==
    [scorer |-> Lookup(game.items[1].v, s_overall_first_try_scorer),
     minute |-> Lookup(game.items[1].v, s_overall_first_try_minute),
     team |-> Lookup(game.items[1].v, s_overall_first_try_round)]

\* C21: the overall first try of a match is, when both teams scored, the
\* first try of the team whose first try has the smaller minute; when one
\* team scored, that team's first try; when neither scored, None three times
C21_OverallFirstTry ==
    \A g \in 1..Len(round_match_data) :
        LET p == processed[Len(processed) - Len(round_match_data) + g]
            home_tries == try_lists(p.soup.home_tries)
            away_tries == try_lists(p.soup.away_tries)
            of_home == [scorer |-> first_or_None(home_tries.names),
                        minute |-> first_or_None(home_tries.minutes),
                        team |-> PyStr(home_of(p.match))]
            of_away == [scorer |-> first_or_None(away_tries.names),
                        minute |-> first_or_None(away_tries.minutes),
                        team |-> PyStr(away_of(p.match))]
            overall == OverallOf(round_match_data[g])
        IN  IF home_tries.names = <<>> /\ away_tries.names = <<>>
            THEN overall = [scorer |-> PyNone, minute |-> PyNone, team |-> PyNone]
            ELSE IF away_tries.names = <<>> THEN overall = of_home
            ELSE IF home_tries.names = <<>> THEN overall = of_away
            ELSE IF MinuteOf(of_home.minute) < MinuteOf(of_away.minute)
                 THEN overall = of_home
            ELSE IF MinuteOf(of_away.minute) < MinuteOf(of_home.minute)
                 THEN overall = of_away
            ELSE overall \in {of_home, of_away}

\* the column 'Home/Away' of the statistics table and of the try table
Home_Away == ColumnOf(stats_data_headers, <<72, 111, 109, 101, 47, 65, 119, 97, 121>>)
Try_Home_Away == ColumnOf(try_data_headers, <<72, 111, 109, 101, 47, 65, 119, 97, 121>>)

\* C24: in the statistics table and in the try table every row has 'home'
\* or 'away' in the column 'Home/Away'
C24_HomeAwayColumn ==
    pc = "written" =>
        /\ \A i \in 1..Len(df_stats.rows) :
              df_stats.rows[i][Home_Away] \in {PyStr(s_home), PyStr(s_away)}
        /\ \A i \in 1..Len(df_try.rows) :
              df_try.rows[i][Try_Home_Away] \in {PyStr(s_home), PyStr(s_away)}

(***************************************************************************)
(* The match list of NRLScraper.save_data, written with to_csv and read    *)
(* back by read_input_file of the detailed scraper with pd.read_csv.  The  *)
(* file holds the text of each value; read_csv gives a column whose texts  *)
(* are all numbers the dtype int64, and any other column str values.       *)
(***************************************************************************)
\* the text is one or more decimal digits
IsDigits(t) == t # <<>> /\ \A i \in 1..Len(t) : t[i] >= 48 /\ t[i] <= 57

\* pd.read_csv(file_path, sep='\t'): column c of the rows of the file
read_csv_column(rows, c) ==
    IF \A i \in 1..Len(rows) : IsDigits(rows[i][c].s)
    THEN AsSeq([i \in 1..Len(rows) |-> PyInt(int(rows[i][c].s))])
    ELSE AsSeq([i \in 1..Len(rows) |-> PyStr(rows[i][c].s)])

\* int(x) of a value of a DataFrame: "" or the error it raises
int_error(x) ==
    IF x.ty = "int" \/ (x.ty = "str" /\ IsDigits(x.s)) THEN "" ELSE "ValueError"

int_value(x) == IF x.ty = "int" THEN x.n ELSE int(x.s)

\* read_input_file(file_path), for a file with the columns Year, Round,
\* Home, Away: the list of MatchInput, or the error logged and raised again
read_input_file(rows) ==
    LET Year == read_csv_column(rows, 1)
        Round_ == read_csv_column(rows, 2)
        Home == read_csv_column(rows, 3)
        Away == read_csv_column(rows, 4)
        e == FirstError(AsSeq([i \in 1..(2 * Len(rows)) |->
                IF i % 2 = 1 THEN int_error(Year[(i + 1) \div 2])
                ELSE int_error(Round_[i \div 2])]))
    IN  IF e # "" THEN [matches |-> <<>>, err |-> e]
        ELSE [matches |-> AsSeq([i \in 1..Len(rows) |->
                            [year |-> int_value(Year[i]), round |-> int_value(Round_[i]),
                             home_team |-> Home[i], away_team |-> Away[i]]]),
              err |-> ""]

InitList ==
    /\ pc = "start"
    /\ script = "save_data"
    /\ fault = NoFault
    /\ data \in TreesFor("save_data")
    /\ match_list = TRUE
    /\ table_data = <<>>
    /\ error = ""
    /\ txt_file = NoFile
    /\ list_file = NoFile
    /\ CleanIdle
    /\ ScrapeIdle
    /\ DetailIdle

\* main of the detailed scraper on the match list: matches =
\* read_input_file(args.input_file)
ReadInputFile ==
    /\ pc = "done"
    /\ list_file.written
    /\ LET o == read_input_file(list_file.rows)
       IN  /\ matches' = o.matches
           /\ error' = o.err
           /\ pc' = IF o.err = "" THEN "read" ELSE "read raised"
    /\ UNCHANGED <<script, data, fault, match_list, table_data, txt_file, list_file,
                   at_year, at_round, at_match, roundVars, combinedVars, yearVars,
                   DONUT_DATA_2, dfVars, processed, ctVars, scrapeVars>>

NextList == SaveData \/ ReadInputFile

SpecList == InitList /\ [][NextList]_vars

\* C22: read_input_file accepts every match list save_data writes: it
\* raises nothing and returns one MatchInput for each row of the list, with
\* the year, round, home and away of the row
C22_MatchListRoundTrip ==
    pc \in {"read", "read raised"} =>
        /\ pc = "read"
        /\ Len(matches) = Len(list_file.rows)
        /\ \A i \in 1..Len(matches) :
              /\ str(matches[i].year) = list_file.rows[i][1].s
              /\ str(matches[i].round) = list_file.rows[i][2].s
              /\ matches[i].home_team = list_file.rows[i][3]
              /\ matches[i].away_team = list_file.rows[i][4]

(***************************************************************************)
(* The arguments of clean_text: up to MaxChunks pieces, joined.            *)
(***************************************************************************)
Chunks ==
    { <<65>>,                                  \* "A"
      <<32>>,                                  \* " "
      <<10>>,                                  \* "\n"
      <<9>>,                                   \* "\t"
      <<233>>,                                 \* a non-ASCII character
      <<32, 32, 32, 32>>,                      \* four spaces
      <<65, 32, 32, 32, 32>>,                  \* "A" and four spaces
      FIVE_SPACES,
      HOME_OF_THE,
      <<72, 111, 109, 101>>,                   \* "Home"
      <<32, 111, 102, 32, 116, 104, 101>> }    \* " of the"

RECURSIVE Texts(_)
Texts(n) ==
    IF n = 0 THEN { <<>> }
    ELSE Texts(n - 1) \cup { t \o c : t \in Texts(n - 1), c \in Chunks }

(***************************************************************************)
(* clean_text, called once and then on its own result.                     *)
(***************************************************************************)
InitClean ==
    /\ pc = "input"
    /\ fn \in {"clean_text", "NRLScraper.clean_text"}
    /\ text \in Texts(MaxChunks)
    /\ once = <<>>
    /\ twice = <<>>
    /\ FlatIdle
    /\ ScrapeIdle
    /\ DetailIdle

Call(t) == IF fn = "clean_text" THEN clean_text(t) ELSE NRLScraper_clean_text(t)

CleanOnce ==
    /\ pc = "input"
    /\ once' = Call(text)
    /\ pc' = "once"
    /\ UNCHANGED <<fn, text, twice, flatVars, scrapeVars, detailVars>>

CleanTwice ==
    /\ pc = "once"
    /\ twice' = Call(once)
    /\ pc' = "twice"
    /\ UNCHANGED <<fn, text, once, flatVars, scrapeVars, detailVars>>

NextClean == CleanOnce \/ CleanTwice

SpecClean == InitClean /\ [][NextClean]_vars

\* C3: clean_text is idempotent: cleaning a cleaned text changes nothing
C3_Idempotent == pc = "twice" => twice = once

\* C4: the result of clean_text has no whitespace at either end, and the
\* example "Suncorp Stadium\nHome of the Broncos" keeps no trailing space
C4_Trimmed ==
    pc # "input" =>
        once = <<>> \/ (once[1] \notin Whitespace /\ once[Len(once)] \notin Whitespace)

\* C15: the result of clean_text has no character of code point 128 or
\* above; such characters are dropped, nothing is put in their place
C15_Ascii ==
    pc # "input" =>
        /\ \A i \in 1..Len(once) : once[i] <= 127
        /\ Len(once) <= Cardinality({ i \in 1..Len(text) : text[i] <= 127 })

C15_Witness ==
    /\ pc = "once" /\ once # <<>>
    /\ \E i \in 1..Len(text) : text[i] > 127 /\ i > 1 /\ i < Len(text)

\* t has the literal lit somewhere
Contains(t, lit) == \E i \in 1..Len(t) : MatchAt(t, i, lit)

\* the index of the first run of five spaces or 'Home of the' of t, behind
\* the end of t when it has neither
FirstNoise(t) ==
    LET at == { i \in 1..Len(t) :
                  MatchAt(t, i, FIVE_SPACES) \/ MatchAt(t, i, HOME_OF_THE) }
    IN  IF at = {} THEN Len(t) + 1 ELSE CHOOSE i \in at : \A j \in at : i <= j

\* the text without its non-ASCII characters, newlines as spaces, trimmed
Trimmed(t) == strip(replace_newline(re_sub_non_ascii(t)))

\* C16: the result of clean_text has no newline, no run of five spaces and
\* no 'Home of the': it is the text, without its non-ASCII characters, its
\* newlines made spaces and trimmed, up to the first run of five spaces or
\* 'Home of the' of that text
C16_NoiseRemoved ==
    pc # "input" =>
        /\ \A i \in 1..Len(once) : once[i] # LF
        /\ ~Contains(once, FIVE_SPACES)
        /\ ~Contains(once, HOME_OF_THE)
        /\ once = SubSeq(Trimmed(text), 1, FirstNoise(Trimmed(text)) - 1)

\* a run of five spaces that is not in the text given: it comes of
\* dropping a non-ASCII character or of a newline made a space
C16_Witness ==
    /\ pc = "once" /\ once # <<>>
    /\ ~Contains(text, FIVE_SPACES)
    /\ Contains(Trimmed(text), FIVE_SPACES)
    /\ Len(once) < Len(Trimmed(text))

\* C17: clean_text gives a str for every str, never a longer one; the
\* empty str gives the empty str, and so does a str of non-ASCII
\* characters only
C17_TotalNarrowing ==
    pc # "input" =>
        /\ DOMAIN once = 1..Len(once)
        /\ \A i \in 1..Len(once) : once[i] \in Nat
        /\ Len(once) <= Len(text)
        /\ text = <<>> => once = <<>>
        /\ (\A i \in 1..Len(text) : text[i] > 127) => once = <<>>

C17_Witness ==
    /\ pc = "once" /\ once = <<>>
    /\ Len(text) >= 2 /\ \A i \in 1..Len(text) : text[i] > 127

====
